---- MODULE Spec2Model ----
(***************************************************************************)
(* Card study viewer (app.js): the shuffle/position tracker StateManager,  *)
(* its cookie persistence, and the throw / settle / preload machinery of   *)
(* CardStudyApp, as a state machine.                                       *)
(*                                                                         *)
(* JavaScript arrays are TLA+ sequences: the JS element a[i] (0-based) is  *)
(* the TLA+ element a[i+1].                                                *)
(***************************************************************************)
EXTENDS Integers, Sequences, FiniteSets, TLC

VARIABLES
    cardsJson,      \* the card list the server answers for cards.json
    app,            \* the CardStudyApp: its fields, and the callbacks and loads it has under way
    stateManager,   \* this.stateManager: [totalCards, shuffledIndices, currentCardIndex]
    documentCookie, \* document.cookie: the stored cookies, a sequence of [name, value]
    window,         \* the viewport: [innerWidth, innerHeight] in CSS pixels
    drawn,          \* the frames the last step has rendered, each the sequence of its renderCard calls
    cardStack,      \* refactored variant: the CardStack [textures, rotations, offsets, oldDarkenFactors]
    variantDrawn,   \* refactored variant: the frames its render() has drawn
    op,             \* tracker harness: the StateManager method that ran last
    ret,            \* tracker harness: what the last advance() returned
    calls,          \* tracker harness: advance() calls made since the cursor was 0 (-1: not counted)
    loadedFrom,     \* tracker harness: document.cookie as the last load() found it
    snap,           \* tracker harness: the tracker as it was at the last explicit save()
    devicePixelRatio, \* window.devicePixelRatio, in hundredths
    canvas,         \* the card sizes setupCanvas has stored: [app, variant], each [set, scale, cardWidth, cardHeight]
    shuffled,       \* shuffle harness: [n, choice, array] of the last fisherYatesShuffle call
    variant         \* refactored variant: its animationController and the callbacks and loads under way

envVars == <<cardsJson, window, cardStack, variantDrawn>>
appVars == <<cardsJson, app, window, drawn, cardStack, variantDrawn>>
trackerVars == <<stateManager, documentCookie>>
pageVars == <<devicePixelRatio, canvas, shuffled, variant>>
harnessVars == <<op, ret, calls, loadedFrom, snap, pageVars>>
vars == <<cardsJson, app, stateManager, documentCookie, window, drawn, cardStack, variantDrawn,
          op, ret, calls, loadedFrom, snap, devicePixelRatio, canvas, shuffled, variant>>

----------------------------------------------------------------------------
(* Bounds of the model *)

\* Largest deck size N the model runs with.
MaxN == 3

\* Largest array the shuffle is run on by itself.
MaxShuffle == 5

\* The deck of the refactored variant's runs, the position they open at,
\* the throws a run makes and the milliseconds between two of its frames.
VariantDeck == 8
VariantStart == 1
VariantThrows == 8
VariantFrameStep == 250

\* Milliseconds between two animation frames.
FrameStep == 200

\* Most image loads the model lets be under way when a click starts a throw.
MaxPending == 1

\* Largest deck size the frames of the idle application are computed for.
MaxDeck == 7

\* The deck size the stack's runs take: the smallest deck in which a throw
\* completion has a card to preload behind a full stack.
StackDeck == 7

\* Throws the stack's runs let the user start.
StackThrows == 2

\* Milliseconds between two animation frames of the stack's runs, when the
\* frame's timestamp has moved on.
StackFrameStep == 100

----------------------------------------------------------------------------
(* CONFIG *)

maxStackCards == 5
\* degrees
stackRotationRange == 10
\* pixels
stackOffsetRange == 60
\* stackDarkenPerLayer is 0.25: brightness values are kept in hundredths
stackDarkenPerLayer == 25
\* milliseconds
throwDuration == 400
settleDuration == 200
\* throwDistanceMin 2.5 and throwDistanceMax 3.0, in thousandths of the
\* normalized device coordinates; throwRotationRange in degrees
throwDistanceMin == 2500
throwDistanceMax == 3000
throwRotationRange == 720
\* depthCurrent 0.1 and depthStackBase 0.5: depths are kept in thousandths
depthCurrent == 100
depthStackBase == 500
cookieName == "cardStudyProgress"
\* get preloadCount()
preloadCount == maxStackCards
depthStackIncrementFull == 1000 \div maxStackCards

\* get depthStackIncrement(): (1.0 - depthStackBase) / maxStackCards
depthStackIncrement == (1000 - depthStackBase) \div maxStackCards

\* The refactored variant's CONFIG.depthStackIncrement, 0.05
variantDepthStackIncrement == 50

\* The refactored variant's CONFIG.stackDarkenPerLayer, 0.15
variantStackDarkenPerLayer == 15

\* The refactored variant's CONFIG.throwDuration and CONFIG.settleDuration
variantThrowDuration == 500
variantSettleDuration == 300

\* const baseScreenWidth = 1920; const baseScreenHeight = 1080
baseScreenWidth == 1920
baseScreenHeight == 1080

----------------------------------------------------------------------------
(* JavaScript array helpers *)

\* a[i] for a 0-based index i
At(a, i) == a[i + 1]

\* null, where the code holds a path or nothing
NoPath == ""

\* Array.from({ length: n }, (_, i) => i)
ArrayFromLength(n) == [k \in 1..n |-> k - 1]

\* [a[i], a[j]] = [a[j], a[i]]
SwapAt(a, i, j) ==
    [k \in 1..Len(a) |-> IF k = i + 1 THEN a[j + 1] ELSE IF k = j + 1 THEN a[i + 1] ELSE a[k]]

\* A buggy exchange that copies instead of swapping.
SwapAtCopy(a, i, j) == [k \in 1..Len(a) |-> IF k = i + 1 THEN a[j + 1] ELSE a[k]]

----------------------------------------------------------------------------
(* Utils.fisherYatesShuffle *)

\* The values Math.floor(Math.random() * (i + 1)) can take for each i of the
\* loop over an array of length n: one j in 0..i for every i in 1..n-1.
RandomChoices(n) == {c \in [1..(n - 1) -> 0..(n - 1)] : \A i \in 1..(n - 1) : c[i] <= i}

RECURSIVE fisherYatesLoop(_, _, _)
fisherYatesLoop(array, i, choice) ==
    IF i > 0
    THEN fisherYatesLoop(SwapAt(array, i, choice[i]), i - 1, choice)
    ELSE array

\* A shuffle whose exchange step loses an element.
RECURSIVE fisherYatesLoopCopy(_, _, _)
fisherYatesLoopCopy(array, i, choice) ==
    IF i > 0
    THEN fisherYatesLoopCopy(SwapAtCopy(array, i, choice[i]), i - 1, choice)
    ELSE array

fisherYatesShuffleCopy(array, choice) == fisherYatesLoopCopy(array, Len(array) - 1, choice)

\* A shuffle that draws j below i, never i itself.
RECURSIVE fisherYatesLoopBelow(_, _, _)
fisherYatesLoopBelow(array, i, choice) ==
    IF i > 0
    THEN fisherYatesLoopBelow(SwapAt(array, i, choice[i] % i), i - 1, choice)
    ELSE array

fisherYatesShuffleBelow(array, choice) == fisherYatesLoopBelow(array, Len(array) - 1, choice)

fisherYatesShuffle(array, choice) == fisherYatesLoop(array, Len(array) - 1, choice)

----------------------------------------------------------------------------
(* JSON text.  A text is a sequence of tokens; a token is [t, n, s]:        *)
(* punctuation and null carry their kind in t, a number its value in n, a  *)
(* string its characters in s and its length in n.                         *)

Tok(t) == [t |-> t, n |-> 0, s |-> ""]
NumTok(n) == [t |-> "num", n |-> n, s |-> ""]
StrTok(s, len) == [t |-> "str", n |-> len, s |-> s]
KeyIndices == StrTok("indices", 7)
KeyCurrent == StrTok("current", 7)

\* JavaScript values the tracker meets: k is the type, n the number (or the
\* length of a string), a the elements of an array of numbers.
JsUndefined == [k |-> "undefined", n |-> 0, a |-> <<>>]
JsNull == [k |-> "null", n |-> 0, a |-> <<>>]
JsNum(n) == [k |-> "num", n |-> n, a |-> <<>>]
JsStr(len) == [k |-> "str", n |-> len, a |-> <<>>]
JsArr(a) == [k |-> "arr", n |-> 0, a |-> a]

RECURSIVE JoinNumbers(_)
JoinNumbers(a) ==
    IF Len(a) = 0 THEN <<>>
    ELSE IF Len(a) = 1 THEN <<NumTok(a[1])>>
    ELSE <<NumTok(a[1]), Tok(",")>> \o JoinNumbers(Tail(a))

\* JSON.stringify of an array of numbers
StringifyArray(a) == <<Tok("[")>> \o JoinNumbers(a) \o <<Tok("]")>>

\* A serializer that writes the position after the cursor.
JSONstringifyNext(state) ==
    <<Tok("{"), KeyIndices, Tok(":")>> \o StringifyArray(state.indices)
        \o <<Tok(","), KeyCurrent, Tok(":"), NumTok(state.current + 1), Tok("}")>>

\* JSON.stringify({ indices: ..., current: ... }), keys in insertion order
JSONstringify(state) ==
    <<Tok("{"), KeyIndices, Tok(":")>> \o StringifyArray(state.indices)
        \o <<Tok(","), KeyCurrent, Tok(":"), NumTok(state.current), Tok("}")>>

\* Elements of an array after the opening bracket: numbers separated by
\* commas up to the closing bracket.  [ok, a, next]: next is the position
\* after the closing bracket.
RECURSIVE ParseElements(_, _, _)
ParseElements(text, i, acc) ==
    IF i + 1 > Len(text) \/ text[i].t # "num"
    THEN [ok |-> FALSE, a |-> <<>>, next |-> i]
    ELSE IF text[i + 1].t = "]"
    THEN [ok |-> TRUE, a |-> Append(acc, text[i].n), next |-> i + 2]
    ELSE IF text[i + 1].t = ","
    THEN ParseElements(text, i + 2, Append(acc, text[i].n))
    ELSE [ok |-> FALSE, a |-> <<>>, next |-> i]

\* One JSON value starting at position i: a number, null, a string or an
\* array of numbers.  [ok, v, next]
ParseValue(text, i) ==
    IF i > Len(text) THEN [ok |-> FALSE, v |-> JsUndefined, next |-> i]
    ELSE IF text[i].t = "num" THEN [ok |-> TRUE, v |-> JsNum(text[i].n), next |-> i + 1]
    ELSE IF text[i].t = "null" THEN [ok |-> TRUE, v |-> JsNull, next |-> i + 1]
    ELSE IF text[i].t = "str" THEN [ok |-> TRUE, v |-> JsStr(text[i].n), next |-> i + 1]
    ELSE IF text[i].t = "["
    THEN IF i + 1 <= Len(text) /\ text[i + 1].t = "]"
         THEN [ok |-> TRUE, v |-> JsArr(<<>>), next |-> i + 2]
         ELSE LET e == ParseElements(text, i + 1, <<>>)
              IN  [ok |-> e.ok, v |-> JsArr(e.a), next |-> e.next]
    ELSE [ok |-> FALSE, v |-> JsUndefined, next |-> i]

\* The members of an object after the opening brace: "key" : value pairs
\* separated by commas up to the closing brace, which must end the text.
\* A later member of the same key replaces an earlier one.
RECURSIVE ParseMembers(_, _, _)
ParseMembers(text, i, acc) ==
    IF i + 1 > Len(text) \/ text[i].t # "str" \/ text[i + 1].t # ":"
    THEN [ok |-> FALSE, indices |-> JsUndefined, current |-> JsUndefined]
    ELSE LET pv == ParseValue(text, i + 2)
             got == IF text[i].s = "indices" THEN [acc EXCEPT !.indices = pv.v]
                    ELSE IF text[i].s = "current" THEN [acc EXCEPT !.current = pv.v]
                    ELSE acc
         IN  IF ~pv.ok \/ pv.next > Len(text)
             THEN [ok |-> FALSE, indices |-> JsUndefined, current |-> JsUndefined]
             ELSE IF text[pv.next].t = "}" /\ pv.next = Len(text)
             THEN [got EXCEPT !.ok = TRUE]
             ELSE IF text[pv.next].t = ","
             THEN ParseMembers(text, pv.next + 1, got)
             ELSE [ok |-> FALSE, indices |-> JsUndefined, current |-> JsUndefined]

\* JSON.parse: [ok, k, indices, current].  ok = FALSE is a SyntaxError; k is
\* the type of the parsed value; for an object, indices and current are its
\* properties of those names (undefined when absent).
JSONparse(text) ==
    LET none == [ok |-> FALSE, k |-> "undefined", indices |-> JsUndefined, current |-> JsUndefined]
    IN  IF Len(text) = 0 THEN none
        ELSE IF text[1].t = "{"
        THEN IF Len(text) = 2 /\ text[2].t = "}"
             THEN [none EXCEPT !.ok = TRUE, !.k = "obj"]
             ELSE LET m == ParseMembers(text, 2,
                               [ok |-> FALSE, indices |-> JsUndefined, current |-> JsUndefined])
                  IN  [ok |-> m.ok, k |-> "obj", indices |-> m.indices, current |-> m.current]
        ELSE LET pv == ParseValue(text, 1)
             IN  IF pv.ok /\ pv.next = Len(text) + 1
                 THEN [none EXCEPT !.ok = TRUE, !.k = pv.v.k]
                 ELSE none

----------------------------------------------------------------------------
(* Utils.setCookie / Utils.getCookie over document.cookie *)

\* document.cookie = `${name}=${value};expires=...;path=/` : the cookie of
\* that name is replaced, or added when there is none.
setCookie(jar, name, value) ==
    IF \E k \in 1..Len(jar) : jar[k].name = name
    THEN [k \in 1..Len(jar) |->
             IF jar[k].name = name THEN [name |-> name, value |-> value] ELSE jar[k]]
    ELSE Append(jar, [name |-> name, value |-> value])

\* The value of the first cookie of that name, or null. [isNull, text]
getCookie(jar, name) ==
    IF \E k \in 1..Len(jar) : jar[k].name = name
    THEN LET k == CHOOSE k \in 1..Len(jar) :
                      jar[k].name = name /\ \A m \in 1..(k - 1) : jar[m].name # name
         IN  [isNull |-> FALSE, text |-> jar[k].value]
    ELSE [isNull |-> TRUE, text |-> <<>>]

----------------------------------------------------------------------------
(* StateManager *)

\* constructor(totalCards)
NewStateManager(totalCards) ==
    [totalCards |-> totalCards, shuffledIndices |-> <<>>, currentCardIndex |-> 0]

\* save(): the cookie store after the call
save(sm, jar) ==
    setCookie(jar, cookieName,
              JSONstringify([indices |-> sm.shuffledIndices, current |-> sm.currentCardIndex]))

\* A reset() that does not persist.
resetUnsaved(sm, jar, choice) ==
    [sm |-> [sm EXCEPT !.shuffledIndices =
                          fisherYatesShuffle(ArrayFromLength(sm.totalCards), choice),
                       !.currentCardIndex = 0],
     jar |-> jar]

\* reset(): choice holds the random draws of the shuffle. [sm, jar]
reset(sm, jar, choice) ==
    LET fresh == [sm EXCEPT !.shuffledIndices =
                                fisherYatesShuffle(ArrayFromLength(sm.totalCards), choice),
                            !.currentCardIndex = 0]
    IN  [sm |-> fresh, jar |-> save(fresh, jar)]

\* An advance() that reports the deck complete one card late.
advanceLate(sm, jar) ==
    LET moved == [sm EXCEPT !.currentCardIndex = sm.currentCardIndex + 1]
    IN  IF moved.currentCardIndex > Len(moved.shuffledIndices)
        THEN [sm |-> moved, jar |-> jar, ret |-> FALSE]
        ELSE [sm |-> moved, jar |-> save(moved, jar), ret |-> TRUE]

\* An advance() that never persists.
advanceNoSave(sm, jar) ==
    LET moved == [sm EXCEPT !.currentCardIndex = sm.currentCardIndex + 1]
    IN  [sm |-> moved, jar |-> jar,
         ret |-> ~(moved.currentCardIndex >= Len(moved.shuffledIndices))]

advanceTwo(sm, jar) ==
    LET moved == [sm EXCEPT !.currentCardIndex = sm.currentCardIndex + 2]
    IN  IF moved.currentCardIndex >= Len(moved.shuffledIndices)
        THEN [sm |-> moved, jar |-> jar, ret |-> FALSE]
        ELSE [sm |-> moved, jar |-> save(moved, jar), ret |-> TRUE]

\* advance(): [sm, jar, ret]; ret = FALSE is "deck complete"
advance(sm, jar) ==
    LET moved == [sm EXCEPT !.currentCardIndex = sm.currentCardIndex + 1]
    IN  IF moved.currentCardIndex >= Len(moved.shuffledIndices)
        THEN [sm |-> moved, jar |-> jar, ret |-> FALSE]
        ELSE [sm |-> moved, jar |-> save(moved, jar), ret |-> TRUE]

\* What the try block of load() does with the parsed cookie: "throw" when
\* an exception leaves the block (SyntaxError of JSON.parse, TypeError of a
\* property read on null or undefined, the Error of the length test),
\* "keep" when the stored state is taken over.
loadTry(sm, text) ==
    LET state == JSONparse(text)
    IN  IF ~state.ok THEN "throw"
        ELSE IF state.k = "null" THEN "throw"
        ELSE IF state.indices.k \in {"undefined", "null"} THEN "throw"
        ELSE IF state.indices.k = "num" THEN "throw"
        ELSE IF state.indices.k = "str"
        THEN IF state.indices.n # sm.totalCards THEN "throw" ELSE "keep"
        ELSE IF Len(state.indices.a) # sm.totalCards THEN "throw" ELSE "keep"

\* A load() that trusts the stored state without the length test.
loadNoLengthTest(sm, jar, choice) ==
    LET saved == getCookie(jar, cookieName)
        state == JSONparse(saved.text)
    IN  IF ~saved.isNull /\ Len(saved.text) > 0 /\ state.ok /\ state.indices.k = "arr"
           /\ state.current.k = "num"
        THEN [sm |-> [sm EXCEPT !.shuffledIndices = state.indices.a,
                                !.currentCardIndex = state.current.n],
              jar |-> jar, threw |-> FALSE]
        ELSE [sm |-> reset(sm, jar, choice).sm, jar |-> reset(sm, jar, choice).jar,
              threw |-> FALSE]

\* load(): [sm, jar, threw].  A null or empty cookie value is falsy and goes
\* to reset(); every exception of the try block is caught and goes to
\* reset(); nothing is thrown to the caller.  A kept state is an array of
\* numbers with a numeric current in every stored text the model draws.
load(sm, jar, choice) ==
    LET saved == getCookie(jar, cookieName)
        state == JSONparse(saved.text)
    IN  IF ~saved.isNull /\ Len(saved.text) > 0
        THEN IF loadTry(sm, saved.text) = "keep"
             THEN [sm |-> [sm EXCEPT !.shuffledIndices = state.indices.a,
                                     !.currentCardIndex = state.current.n],
                   jar |-> jar, threw |-> FALSE]
             ELSE [sm |-> reset(sm, jar, choice).sm, jar |-> reset(sm, jar, choice).jar,
                   threw |-> FALSE]
        ELSE [sm |-> reset(sm, jar, choice).sm, jar |-> reset(sm, jar, choice).jar,
              threw |-> FALSE]

\* getCurrentCardPath(cards)
getCurrentCardPath(sm, cards) == At(cards, At(sm.shuffledIndices, sm.currentCardIndex))

getStackCardPathNext(sm, cards, offset) ==
    LET idx == sm.currentCardIndex + offset + 1
    IN  IF idx < Len(sm.shuffledIndices)
        THEN At(cards, At(sm.shuffledIndices, idx))
        ELSE NoPath

\* getStackCardPath(cards, offset): the path, or null past the deck's end
getStackCardPath(sm, cards, offset) ==
    LET idx == sm.currentCardIndex + offset
    IN  IF idx < Len(sm.shuffledIndices)
        THEN At(cards, At(sm.shuffledIndices, idx))
        ELSE NoPath

\* getRemainingCards()
getRemainingCards(sm) == Len(sm.shuffledIndices) - sm.currentCardIndex


----------------------------------------------------------------------------
(* CardStudyApp: fields *)

\* The image files the card list may name, in the order of the list.
AllCardPaths ==
    <<"avatar_cards/a.webp", "avatar_cards/b.webp", "avatar_cards/c.webp",
      "avatar_cards/d.webp", "avatar_cards/e.webp", "avatar_cards/f.webp",
      "avatar_cards/g.webp", "avatar_cards/h.webp", "avatar_cards/i.webp">>

\* A texture device.createTexture makes of the image at a path: the id
\* tells the textures made of one image apart
Texture(path, id) == [image |-> path, id |-> id]

\* this.currentTexture = null
NoTexture == [image |-> NoPath, id |-> 0]

\* new Map()
NewMap == [path \in {} |-> NoTexture]

\* Map.prototype.set
MapSet(map, key, value) ==
    [k \in DOMAIN map \cup {key} |-> IF k = key THEN value ELSE map[k]]

\* The null of cardDarkenFactors.push(null)
NullDarken == -1

ZeroOffset == [x |-> 0, y |-> 0]

\* Values of Math.random(), in hundredths: 0 <= Math.random() < 1
MathRandom == {0, 25, 50, 75, 99}

\* The viewports the model opens the page in
BaseWindow == [innerWidth |-> baseScreenWidth, innerHeight |-> baseScreenHeight]

Viewports ==
    {[innerWidth |-> 640, innerHeight |-> 1080],
     BaseWindow,
     [innerWidth |-> 3840, innerHeight |-> 2160]}

\* (Math.random() - 0.5) * CONFIG.stackRotationRange, in hundredths of a degree
stackRotation(random) == (random - 50) * stackRotationRange

stackOffsetUnscaled(random, win) == (random - 50) * stackOffsetRange

\* (Math.random() - 0.5) * CONFIG.stackOffsetRange * screenRatio, in
\* hundredths of a pixel, with screenRatio = Math.min(innerWidth /
\* baseScreenWidth, innerHeight / baseScreenHeight)
stackOffset(random, win) ==
    IF win.innerWidth * baseScreenHeight <= win.innerHeight * baseScreenWidth
    THEN ((random - 50) * stackOffsetRange * win.innerWidth) \div baseScreenWidth
    ELSE ((random - 50) * stackOffsetRange * win.innerHeight) \div baseScreenHeight

\* The rotation and offset a stack entry gets from three draws of
\* Math.random(), in the order the code draws them
RandomPose(draws, win) ==
    [rotation |-> stackRotation(draws[1]),
     offset |-> [x |-> stackOffset(draws[2], win), y |-> stackOffset(draws[3], win)]]

\* The draws the application's runs take for a stack entry: all three at
\* 0.5 (an entry with no rotation and no offset), or 0, 0.75 and 0
PoseDraws == {<<50, 50, 50>>, <<0, 75, 0>>}

RandomPoses == {RandomPose(draws, window) : draws \in PoseDraws}

\* One draw for each stack entry a call may create: at most maxStackCards
\* entries, and never more than the deck has cards behind the current one
RandomPoseLists(totalCards) ==
    [1..(IF totalCards - 1 < 1 THEN 1
         ELSE IF totalCards - 1 < maxStackCards THEN totalCards - 1
         ELSE maxStackCards) -> RandomPoses]

\* constructor(): the fields, and nothing under way.  listening tells that
\* the canvas has its click and touchstart listeners, loadingEl that the
\* loading element is displayed, errorEl holds the error element's text
\* ("" while it is not displayed), painted tells that a frame has been
\* submitted to the canvas, thrownIsCurrent that currentTexture has not been
\* assigned since the throw of its card completed.  raf holds the callbacks given to
\* requestAnimationFrame that wait for the next frame, frame the callbacks
\* of the frame being run, loading the image loads that wait for their
\* fetch.
NewCardStudyApp ==
    [cards |-> <<>>,
     isAnimating |-> FALSE,
     animationProgress |-> 0,
     throwDirection |-> ZeroOffset,
     throwRotation |-> 0,
     cardRotations |-> <<>>,
     cardOffsets |-> <<>>,
     cardDarkenFactors |-> <<>>,
     currentCardInitialRotation |-> 0,
     currentCardInitialOffset |-> ZeroOffset,
     isSettling |-> FALSE,
     settleProgress |-> settleDuration,
     settleStackRotations |-> <<>>,
     settleStackOffsets |-> <<>>,
     settleStackDarkenFactors |-> <<>>,
     isLoadingStackCard |-> FALSE,
     textureCache |-> NewMap,
     currentTexture |-> NoTexture,
     nextTextures |-> <<>>,
     listening |-> FALSE,
     loadingEl |-> TRUE,
     errorEl |-> "",
     painted |-> FALSE,
     thrownIsCurrent |-> FALSE,
     raf |-> <<>>,
     frame |-> <<>>,
     loading |-> <<>>]

\* The refactored variant's CardStack.constructor()
NewCardStack == [textures |-> <<>>, rotations |-> <<>>, offsets |-> <<>>, oldDarkenFactors |-> <<>>]

\* The refactored variant's CardStack.add(texture), with its three draws of
\* Math.random(): the offsets are not scaled by the viewport
add(stack, texture, draws) ==
    [textures |-> Append(stack.textures, texture),
     rotations |-> Append(stack.rotations, (draws[1] - 50) * stackRotationRange),
     offsets |-> Append(stack.offsets, [x |-> (draws[2] - 50) * stackOffsetRange,
                                        y |-> (draws[3] - 50) * stackOffsetRange]),
     oldDarkenFactors |-> Append(stack.oldDarkenFactors, NullDarken)]

\* textures.forEach(texture => this.cardStack.add(texture)) of the
\* refactored variant's loadCurrentCards(), every entry with the same draws
RECURSIVE addEach(_, _, _)
addEach(stack, textures, draws) ==
    IF textures = <<>> THEN stack
    ELSE addEach(add(stack, Head(textures), draws), Tail(textures), draws)

\* The app together with the tracker and the cookie store its methods act
\* on, and the frames they render
World(a, sm, jar) == [a |-> a, sm |-> sm, jar |-> jar, drawn |-> <<>>]

\* Array.prototype.shift: no effect on an empty array
Shift(arr) == IF Len(arr) = 0 THEN arr ELSE Tail(arr)

RemoveAt(seq, k) == SubSeq(seq, 1, k - 1) \o SubSeq(seq, k + 1, Len(seq))

Min(x, y) == IF x <= y THEN x ELSE y

----------------------------------------------------------------------------
(* CardStudyApp: render.  Progress, eased progress, opacity, depth and the *)
(* normalized offsets are kept in thousandths, brightness in hundredths,   *)
(* rotations in hundredths of a degree, pixel offsets in hundredths of a   *)
(* pixel; a quotient is cut to the unit below.                             *)

\* Utils.easeOutCubic(t): 1 - Math.pow(1 - t, 3)
easeOutCubic(t) == 1000 - ((1000 - t) * (1000 - t) * (1000 - t)) \div 1000000

\* this.animationProgress, kept in milliseconds of throwDuration
throwProgress(a) == (a.animationProgress * 1000) \div throwDuration

\* this.settleProgress, kept in milliseconds of settleDuration
settleProgressOf(a) == (a.settleProgress * 1000) \div settleDuration

\* (pixels / window.innerWidth) * 2, and the same for the height
normalized(pixels, extent) == (pixels * 20) \div extent

\* 1.0 - (stackLayer * CONFIG.stackDarkenPerLayer)
layerDarken(stackLayer) == 100 - stackLayer * stackDarkenPerLayer

\* CONFIG.depthStackBase + (i * CONFIG.depthStackIncrement)
stackDepth(i) == depthStackBase + i * depthStackIncrement

\* The refactored variant's depth of stack index i
variantStackDepth(i) == depthStackBase + i * variantDepthStackIncrement

stackOpacityStrict(i, stackSize, remaining) ==
    IF remaining <= maxStackCards /\ stackSize - i > remaining - 1 THEN 0 ELSE 1000

\* The opacity of stack index i: 0 for the layers render hides when the
\* deck nears its end
stackOpacity(i, stackSize, remaining) ==
    IF remaining <= maxStackCards /\ stackSize - i >= remaining - 1 THEN 0 ELSE 1000

\* One renderCard call
Draw(layer, index, texture, offsetX, offsetY, rotation, depth, opacity, darkenFactor) ==
    [layer |-> layer, index |-> index, texture |-> texture,
     offsetX |-> offsetX, offsetY |-> offsetY, scale |-> 1000, rotation |-> rotation,
     depth |-> depth, opacity |-> opacity, darkenFactor |-> darkenFactor]

\* A stack loop whose brightness follows the progress without the easing
renderStackCardLinear(a, win, i, stackSize, remaining) ==
    LET stackLayer == i + 1
        rotationsArray == IF a.isSettling THEN a.settleStackRotations ELSE a.cardRotations
        offsetsArray == IF a.isSettling THEN a.settleStackOffsets ELSE a.cardOffsets
        darkenArray == IF a.isSettling THEN a.settleStackDarkenFactors ELSE a.cardDarkenFactors
        pixelOffset == IF i < Len(offsetsArray) THEN At(offsetsArray, i) ELSE ZeroOffset
        rotation == IF i < Len(rotationsArray) THEN At(rotationsArray, i) ELSE 0
        newDarken == layerDarken(stackLayer)
        darkenFactor ==
            IF a.isSettling /\ i < Len(darkenArray) /\ At(darkenArray, i) # NullDarken
            THEN At(darkenArray, i)
                 + ((newDarken - At(darkenArray, i)) * settleProgressOf(a)) \div 1000
            ELSE newDarken
    IN  Draw("stack", i, At(a.nextTextures, i),
             normalized(pixelOffset.x, win.innerWidth),
             normalized(pixelOffset.y, win.innerHeight),
             rotation, stackDepth(i), stackOpacity(i, stackSize, remaining), darkenFactor)

\* The body of render()'s stack loop for index i
renderStackCard(a, win, i, stackSize, remaining) ==
    LET stackLayer == i + 1
        rotationsArray == IF a.isSettling THEN a.settleStackRotations ELSE a.cardRotations
        offsetsArray == IF a.isSettling THEN a.settleStackOffsets ELSE a.cardOffsets
        darkenArray == IF a.isSettling THEN a.settleStackDarkenFactors ELSE a.cardDarkenFactors
        pixelOffset == IF i < Len(offsetsArray) THEN At(offsetsArray, i) ELSE ZeroOffset
        rotation == IF i < Len(rotationsArray) THEN At(rotationsArray, i) ELSE 0
        newDarken == layerDarken(stackLayer)
        darkenFactor ==
            IF a.isSettling /\ i < Len(darkenArray) /\ At(darkenArray, i) # NullDarken
            THEN At(darkenArray, i)
                 + ((newDarken - At(darkenArray, i)) * easeOutCubic(settleProgressOf(a))) \div 1000
            ELSE newDarken
    IN  Draw("stack", i, At(a.nextTextures, i),
             normalized(pixelOffset.x, win.innerWidth),
             normalized(pixelOffset.y, win.innerHeight),
             rotation, stackDepth(i), stackOpacity(i, stackSize, remaining), darkenFactor)

\* The renderCard call for the current card
renderCurrentCard(a, win) ==
    IF a.isAnimating
    THEN LET eased == easeOutCubic(throwProgress(a))
         IN  Draw("current", -1, a.currentTexture,
                  (a.throwDirection.x * eased) \div 1000,
                  (a.throwDirection.y * eased) \div 1000,
                  (a.throwRotation * eased) \div 1000,
                  depthCurrent, 1000 - throwProgress(a), 100)
    ELSE IF a.isSettling
    THEN LET eased == easeOutCubic(settleProgressOf(a))
             initialDarken == 100 - stackDarkenPerLayer
         IN  Draw("current", -1, a.currentTexture,
                  normalized((a.currentCardInitialOffset.x * (1000 - eased)) \div 1000,
                             win.innerWidth),
                  normalized((a.currentCardInitialOffset.y * (1000 - eased)) \div 1000,
                             win.innerHeight),
                  (a.currentCardInitialRotation * (1000 - eased)) \div 1000,
                  depthCurrent, 1000,
                  initialDarken + ((100 - initialDarken) * eased) \div 1000)
    ELSE Draw("current", -1, a.currentTexture, 0, 0, 0, depthCurrent, 1000, 100)

renderFrameCurrentFirst(a, sm, win) ==
    LET remaining == getRemainingCards(sm)
        stackSize == Min(maxStackCards, remaining - 1)
        shown == Min(stackSize, Len(a.nextTextures))
        stack == [k \in 1..shown |-> renderStackCard(a, win, shown - k, stackSize, remaining)]
    IN  IF a.currentTexture # NoTexture
        THEN <<renderCurrentCard(a, win)>> \o stack
        ELSE stack

\* render(): the renderCard calls of one frame, in the order they are made
renderFrame(a, sm, win) ==
    LET remaining == getRemainingCards(sm)
        stackSize == Min(maxStackCards, remaining - 1)
        shown == Min(stackSize, Len(a.nextTextures))
        stack == [k \in 1..shown |-> renderStackCard(a, win, shown - k, stackSize, remaining)]
    IN  IF a.currentTexture # NoTexture
        THEN Append(stack, renderCurrentCard(a, win))
        ELSE stack

\* render(), as a step of a method: one more frame
render(w, win) ==
    [w EXCEPT !.drawn = Append(@, renderFrame(w.a, w.sm, win)),
              !.a.painted = TRUE]

\* The refactored variant's AnimationController.constructor(): the fields
\* its render() reads
NewAnimationController ==
    [isAnimating |-> FALSE, animationType |-> "", progress |-> 0, startTime |-> 0]

\* The refactored variant's renderStackCard(passEncoder, index, stackSize,
\* remaining): the layer is counted from the back of the stack
variantRenderStackCard(stack, controller, win, index, stackSize, remaining) ==
    LET stackLayer == stackSize - index
        oldDarken == At(stack.oldDarkenFactors, index)
        newDarken == 100 - stackLayer * variantStackDarkenPerLayer
        darkenFactor ==
            IF controller.animationType = "settle" /\ controller.isAnimating
               /\ oldDarken # NullDarken
            THEN oldDarken + ((newDarken - oldDarken) * easeOutCubic(controller.progress)) \div 1000
            ELSE newDarken
    IN  Draw("stack", index, At(stack.textures, index),
             normalized(At(stack.offsets, index).x, win.innerWidth),
             normalized(At(stack.offsets, index).y, win.innerHeight),
             At(stack.rotations, index), variantStackDepth(index),
             stackOpacity(index, stackSize, remaining), darkenFactor)

\* The stack loop of the refactored variant's render()
variantRenderStack(stack, controller, sm, win) ==
    LET remaining == getRemainingCards(sm)
        stackSize == Min(maxStackCards, remaining - 1)
        shown == Min(stackSize, Len(stack.textures))
    IN  [k \in 1..shown |->
            variantRenderStackCard(stack, controller, win, shown - k, stackSize, remaining)]

----------------------------------------------------------------------------
(* CardStudyApp: methods.  A method that awaits a fetch is cut at the      *)
(* await: the part before it leaves an entry in loading, the part after it *)
(* runs when the fetch completes.  An await of an image already cached     *)
(* resumes before any other event, so both parts run in one step.          *)

\* An image load that waits for its fetch:
\*   kind    the method that awaits, and which of its awaits
\*   path    the image awaited (loadNextStackCard, current card)
\*   paths   the stack images of loadCurrentCards, in stack order
\*   waiting those of them whose fetch has not completed
\*   textures the textures Promise.all has got so far, in stack order
\*   caller, nextCardRotation, nextCardOffset: who awaits loadCurrentCards,
\*           and the locals of onCardThrowComplete that outlive the await
Load(kind, path, paths, waiting, textures, ctx) ==
    [kind |-> kind, path |-> path, paths |-> paths, waiting |-> waiting,
     textures |-> textures,
     caller |-> ctx.caller, nextCardRotation |-> ctx.nextCardRotation,
     nextCardOffset |-> ctx.nextCardOffset]

Context(caller, rotation, offset) ==
    [caller |-> caller, nextCardRotation |-> rotation, nextCardOffset |-> offset]

showErrorAndListen(a, message) ==
    [a EXCEPT !.loadingEl = FALSE, !.errorEl = message, !.listening = TRUE]

\* showError(message)
showError(a, message) == [a EXCEPT !.loadingEl = FALSE, !.errorEl = message]

\* A callback given to requestAnimationFrame: the animate closure of
\* animateThrow or animateSettle, with currentTime - startTime as of the
\* last frame
Callback(kind) == [kind |-> kind, elapsed |-> 0]

\* animateSettle(): the part that runs at once
animateSettle(a) == [a EXCEPT !.raf = Append(@, Callback("settle"))]

\* The end of onCardThrowComplete: start the settle, or just render
settleOrRender(w, nextCardRotation, nextCardOffset) ==
    IF nextCardRotation # 0 \/ nextCardOffset.x # 0 \/ nextCardOffset.y # 0
    THEN [w EXCEPT !.a = animateSettle([w.a EXCEPT !.currentCardInitialRotation = nextCardRotation,
                                                   !.currentCardInitialOffset = nextCardOffset,
                                                   !.isSettling = TRUE,
                                                   !.settleProgress = 0])]
    ELSE render(w, window)

\* What follows `await this.loadCurrentCards()` in its caller: init()
\* installs the listeners and renders, onCardThrowComplete goes on to the
\* settle.
afterLoadCurrentCards(w, ctx) ==
    IF ctx.caller = "init"
    THEN render([w EXCEPT !.a.listening = TRUE, !.a.loadingEl = FALSE], window)
    ELSE settleOrRender(w, ctx.nextCardRotation, ctx.nextCardOffset)

\* loadCurrentCards(), from `this.nextTextures = await Promise.all(...)` on
loadCurrentCardsEnd(w, textures, ctx) ==
    afterLoadCurrentCards([w EXCEPT !.a.nextTextures = textures], ctx)

\* loadCurrentCards(), from the assignment of the awaited current texture
\* to the await of the stack textures.  The stack entries get their
\* rotations and offsets here, before their images are there.
loadCurrentCardsStack(w, currentTexture, ctx, poses) ==
    LET cardsToPreload == Min(preloadCount, getRemainingCards(w.sm))
        wanted == {i \in 1..cardsToPreload : getStackCardPath(w.sm, w.a.cards, i) # NoPath}
        count == Cardinality(wanted)
        paths == [i \in 1..count |-> getStackCardPath(w.sm, w.a.cards, i)]
        started == [w EXCEPT !.a.currentTexture = currentTexture,
                             !.a.thrownIsCurrent = FALSE,
                             !.a.nextTextures = <<>>,
                             !.a.cardRotations = [i \in 1..count |-> poses[i].rotation],
                             !.a.cardOffsets = [i \in 1..count |-> poses[i].offset]]
        waiting == {paths[i] : i \in 1..count} \ DOMAIN w.a.textureCache
        textures == [i \in 1..count |-> IF paths[i] \in waiting THEN NoTexture
                                        ELSE w.a.textureCache[paths[i]]]
    IN  IF waiting = {}
        THEN loadCurrentCardsEnd(started, textures, ctx)
        ELSE [started EXCEPT !.a.loading =
                                 Append(@, Load("loadCurrentCards.stack", NoPath, paths, waiting,
                                                textures, ctx))]

\* loadCurrentCards(), up to the await of the current texture
loadCurrentCards(w, ctx, poses) ==
    LET currentCardPath == getCurrentCardPath(w.sm, w.a.cards)
    IN  IF currentCardPath \in DOMAIN w.a.textureCache
        THEN loadCurrentCardsStack(w, w.a.textureCache[currentCardPath], ctx, poses)
        ELSE [w EXCEPT !.a.loading =
                           Append(@, Load("loadCurrentCards.current", currentCardPath, <<>>, {},
                                          <<>>, ctx))]

\* A loadNextStackCard() that puts the new entry at the front of the stack
loadNextStackCardEndFront(a, texture, pose) ==
    [a EXCEPT !.nextTextures = <<texture>> \o @,
              !.cardRotations = <<pose.rotation>> \o @,
              !.cardOffsets = <<pose.offset>> \o @,
              !.cardDarkenFactors = <<NullDarken>> \o @,
              !.isLoadingStackCard = FALSE]

\* A loadNextStackCard() that gives the new entry a prior brightness of 1
loadNextStackCardEndBright(a, texture, pose) ==
    [a EXCEPT !.nextTextures = Append(@, texture),
              !.cardRotations = Append(@, pose.rotation),
              !.cardOffsets = Append(@, pose.offset),
              !.cardDarkenFactors = Append(@, 100),
              !.isLoadingStackCard = FALSE]

\* loadNextStackCard(), from the awaited texture on, and the then() of its
\* caller that clears the flag
loadNextStackCardEnd(a, texture, pose) ==
    [a EXCEPT !.nextTextures = Append(@, texture),
              !.cardRotations = Append(@, pose.rotation),
              !.cardOffsets = Append(@, pose.offset),
              !.cardDarkenFactors = Append(@, NullDarken),
              !.isLoadingStackCard = FALSE]

\* The catch of this.loadNextStackCard().then(...).catch(...) with the flag
\* left set
loadNextStackCardFailedFlagged(a) == a

\* The catch of this.loadNextStackCard().then(...).catch(...): the load has
\* thrown, the flag is cleared and the error logged
loadNextStackCardFailed(a) == [a EXCEPT !.isLoadingStackCard = FALSE]

\* this.isLoadingStackCard = true; this.loadNextStackCard().then(...): the
\* call runs to its await; what follows an await of a cached image runs
\* when onCardThrowComplete has returned, before any other event
loadNextStackCard(w, pose) ==
    LET cardPath == getStackCardPath(w.sm, w.a.cards, Len(w.a.nextTextures) + 1)
        flagged == [w.a EXCEPT !.isLoadingStackCard = TRUE]
    IN  IF cardPath = NoPath
        THEN [flagged EXCEPT !.isLoadingStackCard = FALSE]
        ELSE IF cardPath \in DOMAIN w.a.textureCache
        THEN loadNextStackCardEnd(flagged, w.a.textureCache[cardPath], pose)
        ELSE [flagged EXCEPT !.loading =
                                 Append(@, Load("loadNextStackCard", cardPath, <<>>, {}, <<>>,
                                                Context("", 0, ZeroOffset)))]

\* onCardThrowComplete(): choice holds the draws of a reshuffle, poses the
\* draws of the stack entries created in this step
onCardThrowComplete(w, choice, poses) ==
    LET a == w.a
        nextCardRotation == IF Len(a.cardRotations) > 0 THEN a.cardRotations[1] ELSE 0
        nextCardOffset == IF Len(a.cardOffsets) > 0 THEN a.cardOffsets[1] ELSE ZeroOffset
        ctx == Context("onCardThrowComplete", nextCardRotation, nextCardOffset)
        thrown == [a EXCEPT !.isAnimating = FALSE,
                            !.thrownIsCurrent = TRUE,
                            !.cardDarkenFactors =
                                [i \in 1..Len(a.nextTextures) |-> 100 - i * stackDarkenPerLayer]]
        adv == advance(w.sm, w.jar)
    IN  IF ~adv.ret
        THEN LET fresh == reset(adv.sm, adv.jar, choice)
             IN  loadCurrentCards([w EXCEPT !.a = thrown, !.sm = fresh.sm, !.jar = fresh.jar],
                                  ctx, poses)
        ELSE IF Len(thrown.nextTextures) > 0
        THEN LET shifted == [thrown EXCEPT !.currentTexture = thrown.nextTextures[1],
                                           !.thrownIsCurrent = FALSE,
                                           !.nextTextures = Shift(@),
                                           !.cardRotations = Shift(@),
                                           !.cardOffsets = Shift(@),
                                           !.cardDarkenFactors = Shift(@)]
                 snapped == [shifted EXCEPT !.settleStackRotations = shifted.cardRotations,
                                            !.settleStackOffsets = shifted.cardOffsets,
                                            !.settleStackDarkenFactors = shifted.cardDarkenFactors]
                 settled == settleOrRender([w EXCEPT !.a = [snapped EXCEPT
                                                               !.isLoadingStackCard = TRUE],
                                                      !.sm = adv.sm, !.jar = adv.jar],
                                           nextCardRotation, nextCardOffset)
             IN  [settled EXCEPT !.a = loadNextStackCard(settled, poses[1])]
        ELSE loadCurrentCards([w EXCEPT !.a = thrown, !.sm = adv.sm, !.jar = adv.jar], ctx, poses)

\* Math.cos and Math.sin of Math.random() * Math.PI * 2, in thousandths,
\* for the values of Math.random() the model draws
MathCos(random) ==
    CASE random = 0 -> 1000
      [] random = 25 -> 0
      [] random = 50 -> -1000
      [] random = 75 -> 0
      [] random = 99 -> 998

MathSin(random) ==
    CASE random = 0 -> 0
      [] random = 25 -> 1000
      [] random = 50 -> 0
      [] random = 75 -> -1000
      [] random = 99 -> -63

\* throwDistanceMin + Math.random() * (throwDistanceMax - throwDistanceMin)
throwDistance(random) ==
    throwDistanceMin + (random * (throwDistanceMax - throwDistanceMin)) \div 100

\* The draws the application's runs take for a throw: angle, distance and
\* rotation
ThrowDraws == {<<0, 0, 0>>, <<25, 99, 75>>}

\* throwCard() and the part of animateThrow() that runs at once
throwCard(a, draws) ==
    [a EXCEPT !.isAnimating = TRUE,
              !.animationProgress = 0,
              !.throwDirection = [x |-> (MathCos(draws[1]) * throwDistance(draws[2])) \div 1000,
                                  y |-> (MathSin(draws[1]) * throwDistance(draws[2])) \div 1000],
              !.throwRotation = (draws[3] - 50) * throwRotationRange,
              !.raf = Append(@, Callback("throw"))]

\* handleInteraction(e) of setupEventListeners
handleInteraction(a, draws) == IF ~a.isAnimating THEN throwCard(a, draws) ELSE a

animateThrowFrameOnce(w, elapsed, choice, poses) ==
    LET progressed == render([w EXCEPT !.a.animationProgress = Min(elapsed, throwDuration)],
                             window)
    IN  IF progressed.a.animationProgress < throwDuration
        THEN progressed
        ELSE onCardThrowComplete(progressed, choice, poses)

\* The animate closure of animateThrow, for a frame at elapsed milliseconds
\* after the start.  animationProgress holds Math.min(elapsed / duration, 1)
\* in units of 1 / throwDuration.
animateThrowFrame(w, elapsed, choice, poses) ==
    LET progressed == render([w EXCEPT !.a.animationProgress = Min(elapsed, throwDuration)],
                             window)
    IN  IF progressed.a.animationProgress < throwDuration
        THEN [progressed EXCEPT !.a.raf = Append(@, [kind |-> "throw", elapsed |-> elapsed])]
        ELSE onCardThrowComplete(progressed, choice, poses)

\* The animate closure of animateSettle.  settleProgress is in units of
\* 1 / settleDuration.
animateSettleFrame(w, elapsed) ==
    LET progressed == render([w EXCEPT !.a.settleProgress = Min(elapsed, settleDuration)],
                             window)
    IN  IF progressed.a.settleProgress < settleDuration
        THEN [progressed EXCEPT !.a.raf = Append(@, [kind |-> "settle", elapsed |-> elapsed])]
        ELSE [progressed EXCEPT !.a.isSettling = FALSE, !.a.settleProgress = settleDuration]

----------------------------------------------------------------------------
(* The tracker on its own: a StateManager driven through its methods over  *)
(* a cookie store that may hold anything when the page opens.              *)

\* Arrays of numbers a stored state may hold for a deck of n cards: every
\* array of length n over 0..n (the permutations of [0,n), arrays with
\* repeated entries, arrays with the entry n out of range), and arrays that
\* are too short or too long.
StoredArrays(n) ==
    [1..n -> 0..n] \cup {<<>>, ArrayFromLength(n - 1), ArrayFromLength(n + 1)}

\* Cookie values the page may find for a deck of n cards: states as save()
\* writes them (with any array and any current in -1..n+1), objects whose
\* indices is missing, null or a number, the texts null and 7, the empty
\* text, and texts JSON.parse rejects.
StoredTexts(n) ==
    {JSONstringify([indices |-> a, current |-> c]) : a \in StoredArrays(n), c \in (-1)..(n + 1)}
    \cup {<<Tok("{"), KeyCurrent, Tok(":"), NumTok(0), Tok("}")>>,
          <<Tok("{"), KeyIndices, Tok(":"), Tok("null"), Tok(","),
            KeyCurrent, Tok(":"), NumTok(0), Tok("}")>>,
          <<Tok("{"), KeyIndices, Tok(":"), NumTok(n), Tok("}")>>,
          <<Tok("{"), Tok("}")>>,
          <<Tok("null")>>,
          <<NumTok(7)>>,
          <<>>,
          <<Tok("{"), KeyIndices, Tok(":"), Tok("["), NumTok(0), Tok(",")>>,
          <<Tok("{"), KeyIndices, Tok(":"), Tok("["), Tok("]"), Tok(","),
            KeyCurrent, Tok(":"), NumTok(0)>>,
          <<Tok("}")>>}

UnrelatedCookie == [name |-> "theme", value |-> <<StrTok("dark", 4)>>]

StoredJars(n) ==
    {<<>>, <<UnrelatedCookie>>}
    \cup {<<[name |-> cookieName, value |-> t]>> : t \in StoredTexts(n)}
    \cup {<<UnrelatedCookie, [name |-> cookieName, value |-> t]>> :
             t \in {JSONstringify([indices |-> ArrayFromLength(n), current |-> 0])}}

NoSnap == [valid |-> FALSE, sm |-> NewStateManager(0)]

\* this.cardWidth and this.cardHeight before setupCanvas has run
NoCardSize == [set |-> FALSE, scale |-> [n |-> 0, d |-> 1],
               cardWidth |-> [n |-> 0, d |-> 1], cardHeight |-> [n |-> 0, d |-> 1]]

NoCanvas == [app |-> NoCardSize, variant |-> NoCardSize]

NoShuffle == [n |-> 0, choice |-> <<>>, array |-> <<>>]

\* The refactored variant's application before its constructor's init()
NewVariantApp ==
    [animationController |-> NewAnimationController,
     currentTexture |-> NoTexture,
     cache |-> {},      \* the paths textureManager.cache holds
     raf |-> 0,         \* the callbacks given to requestAnimationFrame and not yet run
     loads |-> <<>>,    \* the calls of loadCurrentCards and loadNextStackCard that await a fetch
     now |-> 0,         \* the timestamp of the last frame an animation has read
     clicks |-> 0]      \* the throws started

\* The values of a page on which nothing of the canvas, the shuffle harness
\* or the variant's frame loop has run
PageIdle ==
    /\ devicePixelRatio = 100
    /\ canvas = NoCanvas
    /\ shuffled = NoShuffle
    /\ variant = NewVariantApp

InitTracker ==
    /\ \E n \in 1..MaxN :
          /\ stateManager = NewStateManager(n)
          /\ documentCookie \in StoredJars(n)
    /\ op = "new"
    /\ ret = TRUE
    /\ calls = -1
    /\ loadedFrom = <<>>
    /\ snap = NoSnap
    /\ PageIdle
    /\ cardsJson = <<>>
    /\ app = NewCardStudyApp
    /\ window = BaseWindow
    /\ drawn = <<>>
    /\ cardStack = NewCardStack
    /\ variantDrawn = <<>>

\* stateManager.load() on a tracker just constructed
TrackerLoad ==
    /\ op = "new"
    /\ \E choice \in RandomChoices(stateManager.totalCards) :
          LET r == load(stateManager, documentCookie, choice)
          IN  /\ stateManager' = r.sm
              /\ documentCookie' = r.jar
              /\ calls' = IF r.sm.currentCardIndex = 0 THEN 0 ELSE -1
              /\ op' = IF r.threw THEN "loadThrew" ELSE "load"
    /\ loadedFrom' = documentCookie
    /\ UNCHANGED <<ret, snap, appVars, pageVars>>

\* stateManager.save()
TrackerSave ==
    /\ op # "new"
    /\ documentCookie' = save(stateManager, documentCookie)
    /\ op' = "save"
    /\ snap' = [valid |-> TRUE, sm |-> stateManager]
    /\ loadedFrom' = <<>>
    /\ UNCHANGED <<stateManager, ret, calls, appVars, pageVars>>

\* stateManager.reset()
TrackerReset ==
    /\ op # "new"
    /\ \E choice \in RandomChoices(stateManager.totalCards) :
          LET r == reset(stateManager, documentCookie, choice)
          IN  /\ stateManager' = r.sm
              /\ documentCookie' = r.jar
    /\ op' = "reset"
    /\ calls' = 0
    /\ snap' = NoSnap
    /\ loadedFrom' = <<>>
    /\ UNCHANGED <<ret, appVars, pageVars>>

\* stateManager.advance(), while cards remain (after "deck complete" the
\* caller resets)
TrackerAdvance ==
    /\ op # "new"
    /\ stateManager.currentCardIndex < Len(stateManager.shuffledIndices)
    /\ LET r == advance(stateManager, documentCookie)
       IN  /\ stateManager' = r.sm
           /\ documentCookie' = r.jar
           /\ ret' = r.ret
    /\ op' = "advance"
    /\ calls' = IF calls >= 0 THEN calls + 1 ELSE -1
    /\ snap' = NoSnap
    /\ loadedFrom' = <<>>
    /\ UNCHANGED <<appVars, pageVars>>

\* The page is opened again: a new StateManager over the same cookies.
TrackerNew ==
    /\ op # "new"
    /\ stateManager' = NewStateManager(stateManager.totalCards)
    /\ op' = "new"
    /\ calls' = -1
    /\ loadedFrom' = <<>>
    /\ UNCHANGED <<documentCookie, ret, snap, appVars, pageVars>>

NextTracker == TrackerLoad \/ TrackerSave \/ TrackerReset \/ TrackerAdvance \/ TrackerNew

SpecTracker == InitTracker /\ [][NextTracker]_vars

----------------------------------------------------------------------------
(* The application: the page opens, the user clicks, frames run, fetches   *)
(* complete.  Events are tasks of one thread: none starts while the        *)
(* callbacks of a frame are being run.                                     *)

\* The draws the application's runs take for a shuffle of n cards: those
\* that exchange every element with itself, and those that exchange every
\* element with the first
ShuffleDraws(n) == {[i \in 1..(n - 1) |-> i], [i \in 1..(n - 1) |-> 0]}

\* The orders reset() produces with them for a deck of n cards
ShuffledOrders(n) == {fisherYatesShuffle(ArrayFromLength(n), c) : c \in ShuffleDraws(n)}

\* The cookies the page may find when it opens: none, or a state an
\* earlier visit saved (save() writes a cursor in [0,n) only).
SavedJars(n) ==
    {<<>>}
    \cup {<<[name |-> cookieName, value |-> JSONstringify([indices |-> p, current |-> c])]>> :
             p \in ShuffledOrders(n), c \in 0..(n - 1)}

HarnessIdle ==
    /\ op = "new"
    /\ ret = TRUE
    /\ calls = -1
    /\ loadedFrom = <<>>
    /\ snap = NoSnap
    /\ PageIdle

\* new CardStudyApp(): stateManager is null until init() makes one
Init ==
    /\ \E n \in 0..MaxN :
          /\ cardsJson = SubSeq(AllCardPaths, 1, n)
          /\ documentCookie \in SavedJars(n)
    /\ app = NewCardStudyApp
    /\ stateManager = NewStateManager(0)
    /\ window = BaseWindow
    /\ drawn = <<>>
    /\ cardStack = NewCardStack
    /\ variantDrawn = <<>>
    /\ HarnessIdle

Becomes(w) ==
    /\ app' = w.a
    /\ stateManager' = w.sm
    /\ documentCookie' = w.jar
    /\ drawn' = w.drawn

\* What the browser gives init(): everything, no navigator.gpu, no
\* cards.json (the response is not ok), or no adapter
Browsers == {"WebGPU", "no navigator.gpu", "no cards.json", "no adapter"}

\* init(), up to the await of the first image or to the error that ends
\* it: the card list is read, the tracker made and loaded, the device
\* obtained, loadCurrentCards() started
init(w, cardList, browser, choice, poses) ==
    IF browser = "no navigator.gpu"
    THEN [w EXCEPT !.a = showError(@, "WebGPU is not supported")]
    ELSE IF browser = "no cards.json"
    THEN [w EXCEPT !.a = showError(@, "Failed to load card list")]
    ELSE IF Len(cardList) = 0
    THEN [w EXCEPT !.a = showError(@, "No cards found")]
    ELSE LET restored == load(NewStateManager(Len(cardList)), w.jar, choice)
             made == [w EXCEPT !.a.cards = cardList, !.sm = restored.sm, !.jar = restored.jar]
         IN  IF browser = "no adapter"
             THEN [made EXCEPT !.a = showError(@, "Failed to get WebGPU adapter")]
             ELSE loadCurrentCards(made, Context("init", 0, ZeroOffset), poses)

\* The page is opened
InitApp ==
    /\ app.cards = <<>>
    /\ app.errorEl = ""
    /\ \E browser \in Browsers, choice \in ShuffleDraws(Len(cardsJson)),
          poses \in RandomPoseLists(Len(cardsJson)) :
          Becomes(init(World(app, stateManager, documentCookie), cardsJson, browser,
                       choice, poses))
    /\ UNCHANGED <<envVars, harnessVars>>

\* A click or touchstart on the canvas
Click ==
    /\ app.listening
    /\ app.frame = <<>>
    /\ Len(app.loading) <= MaxPending
    /\ \E draws \in ThrowDraws : app' = handleInteraction(app, draws)
    /\ drawn' = <<>>
    /\ UNCHANGED <<envVars, trackerVars, harnessVars>>

\* The display's refresh: the callbacks given to requestAnimationFrame
\* since the last frame are run, in the order they were given, with a
\* timestamp FrameStep later
BeginFrameAfter(step) ==
    /\ app.frame = <<>>
    /\ app.raf # <<>>
    /\ app' = [app EXCEPT !.frame = [i \in 1..Len(app.raf) |->
                                        [app.raf[i] EXCEPT !.elapsed = @ + step]],
                          !.raf = <<>>]
    /\ drawn' = <<>>
    /\ UNCHANGED <<envVars, trackerVars, harnessVars>>

BeginFrame == BeginFrameAfter(FrameStep)

\* The frame's next callback is the last of a throw: its draws are taken
ThrowEnds ==
    /\ app.frame # <<>>
    /\ Head(app.frame).kind = "throw"
    /\ Head(app.frame).elapsed >= throwDuration

\* The next callback of the frame is the animate closure of animateThrow
RunThrowFrame ==
    /\ app.frame # <<>>
    /\ Head(app.frame).kind = "throw"
    /\ \E choice \in (IF ThrowEnds THEN ShuffleDraws(Len(cardsJson))
                        ELSE {CHOOSE c \in ShuffleDraws(Len(cardsJson)) : TRUE}),
          poses \in (IF ThrowEnds THEN RandomPoseLists(Len(cardsJson))
                     ELSE {CHOOSE l \in RandomPoseLists(Len(cardsJson)) : TRUE}) :
          Becomes(animateThrowFrame(
              World([app EXCEPT !.frame = Tail(@)], stateManager, documentCookie),
              Head(app.frame).elapsed, choice, poses))
    /\ UNCHANGED <<envVars, harnessVars>>

\* The next callback of the frame is the animate closure of animateSettle
RunSettleFrame ==
    /\ app.frame # <<>>
    /\ Head(app.frame).kind = "settle"
    /\ Becomes(animateSettleFrame(
           World([app EXCEPT !.frame = Tail(@)], stateManager, documentCookie),
           Head(app.frame).elapsed))
    /\ UNCHANGED <<envVars, harnessVars>>

\* A loadTexture() that keeps the texture the cache already holds
loadTextureEndKeep(a, path) ==
    IF path \in DOMAIN a.textureCache THEN a
    ELSE [a EXCEPT !.textureCache = MapSet(@, path, Texture(path, 1))]

\* loadTexture(), from the fetched image on: a texture is made and
\* this.textureCache.set(path, texture) stores it, whatever the cache holds
\* for the path by then
loadTextureEnd(a, path) ==
    [a EXCEPT !.textureCache =
                  MapSet(@, path, Texture(path, IF path \in DOMAIN @ THEN @[path].id + 1 ELSE 1))]

\* The fetch of the current card's image completes, loadTexture returns
\* and loadCurrentCards goes on
CurrentTextureLoaded ==
    /\ app.frame = <<>>
    /\ \E k \in 1..Len(app.loading), poses \in RandomPoseLists(Len(cardsJson)) :
          LET ld == app.loading[k]
              a == loadTextureEnd([app EXCEPT !.loading = RemoveAt(@, k)], ld.path)
          IN  /\ ld.kind = "loadCurrentCards.current"
              /\ Becomes(loadCurrentCardsStack(World(a, stateManager, documentCookie),
                                               a.textureCache[ld.path], ld, poses))
    /\ UNCHANGED <<envVars, harnessVars>>

\* The fetch of one stack image of loadCurrentCards completes; with the
\* last of them Promise.all resolves and loadCurrentCards goes on
StackTextureLoaded ==
    /\ app.frame = <<>>
    /\ \E k \in 1..Len(app.loading) :
          LET ld == app.loading[k]
          IN  /\ ld.kind = "loadCurrentCards.stack"
              /\ \E path \in ld.waiting :
                    LET a == loadTextureEnd(app, path)
                        textures == [i \in 1..Len(ld.paths) |->
                                        IF ld.paths[i] = path THEN a.textureCache[path]
                                        ELSE ld.textures[i]]
                    IN
                    IF ld.waiting = {path}
                    THEN Becomes(loadCurrentCardsEnd(
                             World([a EXCEPT !.loading = RemoveAt(@, k)],
                                   stateManager, documentCookie),
                             textures, ld))
                    ELSE /\ app' = [a EXCEPT !.loading[k].waiting = @ \ {path},
                                             !.loading[k].textures = textures]
                         /\ drawn' = <<>>
                         /\ UNCHANGED trackerVars
    /\ UNCHANGED <<envVars, harnessVars>>

\* An image init() waits for cannot be loaded: loadTexture throws,
\* loadCurrentCards and init with it, and init's catch shows the error.  The
\* other fetches of a Promise.all go on, with nobody waiting for them.
\* (The images asked for after init() are taken to load.)
TextureLoadFails ==
    /\ app.frame = <<>>
    /\ \E k \in 1..Len(app.loading) :
          LET ld == app.loading[k]
          IN  /\ ld.caller = "init"
              /\ \/ /\ ld.kind = "loadCurrentCards.current"
                    /\ app' = showError([app EXCEPT !.loading = RemoveAt(@, k)],
                                        "Failed to load image")
                 \/ /\ ld.kind = "loadCurrentCards.stack"
                    /\ \E path \in ld.waiting :
                          app' = showError(
                                     IF ld.waiting = {path}
                                     THEN [app EXCEPT !.loading = RemoveAt(@, k)]
                                     ELSE [app EXCEPT !.loading[k].kind = "loadTexture",
                                                      !.loading[k].waiting = @ \ {path}],
                                     "Failed to load image")
    /\ drawn' = <<>>
    /\ UNCHANGED <<envVars, trackerVars, harnessVars>>

\* A fetch nobody waits for any more ends: with the image, which
\* loadTexture caches, or without it
UnawaitedTextureLoaded ==
    /\ app.frame = <<>>
    /\ \E k \in 1..Len(app.loading) :
          LET ld == app.loading[k]
          IN  /\ ld.kind = "loadTexture"
              /\ \E path \in ld.waiting, ok \in BOOLEAN :
                    LET a == IF ok THEN loadTextureEnd(app, path) ELSE app
                    IN  app' = IF ld.waiting = {path}
                               THEN [a EXCEPT !.loading = RemoveAt(@, k)]
                               ELSE [a EXCEPT !.loading[k].waiting = @ \ {path}]
    /\ drawn' = <<>>
    /\ UNCHANGED <<envVars, trackerVars, harnessVars>>

Next ==
    \/ InitApp
    \/ Click
    \/ BeginFrame
    \/ RunThrowFrame
    \/ RunSettleFrame
    \/ CurrentTextureLoaded
    \/ StackTextureLoaded
    \/ TextureLoadFails
    \/ UnawaitedTextureLoaded

Spec == Init /\ [][Next]_vars

\* RunThrowFrame is enabled exactly when the frame's next callback is a
\* throw's (its step takes the callback off the frame)
ThrowFrameDue ==
    /\ app.frame # <<>>
    /\ Head(app.frame).kind = "throw"

\* WF_vars(RunThrowFrame), with ThrowFrameDue for ENABLED <<RunThrowFrame>>_vars
RunThrowFrameFair == []<>~ThrowFrameDue \/ []<><<RunThrowFrame>>_vars

\* The display goes on refreshing: the callbacks given to
\* requestAnimationFrame are run with the next frame, one after the other
SpecFair ==
    /\ Spec
    /\ WF_vars(BeginFrame)
    /\ RunThrowFrameFair
    /\ WF_vars(RunSettleFrame)

----------------------------------------------------------------------------
(* The frames of the idle application: the page has been opened on a saved *)
(* position, init() has run to its end with every image loaded, and        *)
(* render() draws the frame.                                               *)

\* The application as init() leaves it for a tracker state, with the draws
\* poses for its stack entries
Opened(cards, sm, jar, poses) ==
    loadCurrentCards(
        World([NewCardStudyApp EXCEPT !.cards = cards,
                                      !.textureCache =
                                          [path \in {cards[i] : i \in 1..Len(cards)} |->
                                              Texture(path, 1)]],
              sm, jar),
        Context("init", 0, ZeroOffset), poses)

InitRender ==
    /\ window \in Viewports
    /\ \E n \in 1..MaxDeck, cursor \in 0..(MaxDeck - 1) :
          /\ cursor < n
          /\ cardsJson = SubSeq(AllCardPaths, 1, n)
          /\ stateManager = [NewStateManager(n) EXCEPT !.shuffledIndices = ArrayFromLength(n),
                                                       !.currentCardIndex = cursor]
    /\ documentCookie = save(stateManager, <<>>)
    /\ \E poses \in RandomPoseLists(Len(cardsJson)) :
          app = Opened(cardsJson, stateManager, documentCookie, poses).a
    /\ drawn = <<>>
    /\ \E draws \in PoseDraws : cardStack = addEach(NewCardStack, app.nextTextures, draws)
    /\ variantDrawn = <<>>
    /\ HarnessIdle

\* this.render() at the end of init()
RenderFrame ==
    /\ drawn = <<>>
    /\ drawn' = <<renderFrame(app, stateManager, window)>>
    /\ UNCHANGED <<cardsJson, app, window, cardStack, variantDrawn, trackerVars, harnessVars>>

\* The refactored variant's render() on the same deck and position, with
\* no animation in progress: its draws of the stack
VariantRenderFrame ==
    /\ variantDrawn = <<>>
    /\ variantDrawn' = <<variantRenderStack(cardStack, NewAnimationController, stateManager, window)>>
    /\ UNCHANGED <<cardsJson, app, window, drawn, cardStack, trackerVars, harnessVars>>

NextRender == RenderFrame \/ VariantRenderFrame

SpecRender == InitRender /\ [][NextRender]_vars

----------------------------------------------------------------------------
(* The stack entries: one entry is created, by each of the three places    *)
(* that create entries, for every viewport and every draw of Math.random() *)

AllDraws == MathRandom \X MathRandom \X MathRandom

NoEntryYet ==
    /\ app.cardRotations = <<>>
    /\ cardStack.rotations = <<>>

InitEntry ==
    /\ window \in Viewports
    /\ cardsJson = SubSeq(AllCardPaths, 1, 2)
    /\ stateManager = [NewStateManager(2) EXCEPT !.shuffledIndices = ArrayFromLength(2)]
    /\ documentCookie = <<>>
    /\ app = [NewCardStudyApp EXCEPT !.cards = cardsJson]
    /\ drawn = <<>>
    /\ cardStack = NewCardStack
    /\ variantDrawn = <<>>
    /\ HarnessIdle

\* loadCurrentCards() creates the entry of the one stack card
EntryOfLoadCurrentCards ==
    /\ NoEntryYet
    /\ \E draws \in AllDraws :
          app' = Opened(cardsJson, stateManager, documentCookie,
                        <<RandomPose(draws, window)>>).a
    /\ UNCHANGED <<cardsJson, window, drawn, cardStack, variantDrawn, trackerVars, harnessVars>>

\* loadNextStackCard() appends an entry
EntryOfLoadNextStackCard ==
    /\ NoEntryYet
    /\ \E draws \in AllDraws :
          app' = loadNextStackCardEnd(app, Texture(cardsJson[2], 1), RandomPose(draws, window))
    /\ UNCHANGED <<cardsJson, window, drawn, cardStack, variantDrawn, trackerVars, harnessVars>>

\* The refactored variant's CardStack.add()
EntryOfAdd ==
    /\ NoEntryYet
    /\ \E draws \in AllDraws :
          cardStack' = add(cardStack, Texture(cardsJson[2], 1), draws)
    /\ UNCHANGED <<cardsJson, app, window, drawn, variantDrawn, trackerVars, harnessVars>>

NextEntry == EntryOfLoadCurrentCards \/ EntryOfLoadNextStackCard \/ EntryOfAdd

SpecEntry == InitEntry /\ [][NextEntry]_vars

----------------------------------------------------------------------------
(* The stack in use: the page has been opened on a deck of StackDeck cards *)
(* at its first card, with the current card and a full stack loaded; the   *)
(* user throws cards, and the image the throw completion preloads arrives  *)
(* during the settle, after it, or not at all.                             *)

\* The images init() has loaded for the app it leaves
LoadedBy(a) ==
    {a.currentTexture.image} \cup {a.nextTextures[i].image : i \in 1..Len(a.nextTextures)}

InitStack ==
    /\ window = BaseWindow
    /\ cardsJson = SubSeq(AllCardPaths, 1, StackDeck)
    /\ stateManager = [NewStateManager(StackDeck) EXCEPT
                           !.shuffledIndices = ArrayFromLength(StackDeck)]
    /\ documentCookie = save(stateManager, <<>>)
    /\ \E poses \in RandomPoseLists(StackDeck) :
          LET opened == Opened(cardsJson, stateManager, documentCookie, poses).a
          IN  app = [opened EXCEPT !.textureCache =
                                       [path \in LoadedBy(opened) |-> Texture(path, 1)]]
    /\ drawn = <<>>
    /\ cardStack = NewCardStack
    /\ variantDrawn = <<>>
    /\ HarnessIdle

\* A click or touchstart, while the user has throws left
ClickOnStack ==
    /\ stateManager.currentCardIndex < StackThrows
    /\ Click

\* The display's refresh, with a timestamp that has moved on by
\* StackFrameStep or, the clock being coarse, has not moved
BeginStackFrame == \E step \in {0, StackFrameStep} : BeginFrameAfter(step)

\* The fetch loadNextStackCard() waits for completes: the texture is made
\* and cached, the entry appended with its draws, and the then() of the
\* caller clears the flag
NextStackCardLoaded ==
    /\ app.frame = <<>>
    /\ \E k \in 1..Len(app.loading), pose \in RandomPoses :
          LET ld == app.loading[k]
              a == loadTextureEnd([app EXCEPT !.loading = RemoveAt(@, k)], ld.path)
          IN  /\ ld.kind = "loadNextStackCard"
              /\ app' = loadNextStackCardEnd(a, a.textureCache[ld.path], pose)
    /\ drawn' = <<>>
    /\ UNCHANGED <<envVars, trackerVars, harnessVars>>

\* The fetch loadNextStackCard() waits for fails: loadTexture throws,
\* loadNextStackCard with it, and the catch of the caller runs
NextStackCardFails ==
    /\ app.frame = <<>>
    /\ \E k \in 1..Len(app.loading) :
          /\ app.loading[k].kind = "loadNextStackCard"
          /\ app' = loadNextStackCardFailed([app EXCEPT !.loading = RemoveAt(@, k)])
    /\ drawn' = <<>>
    /\ UNCHANGED <<envVars, trackerVars, harnessVars>>

NextStack ==
    \/ ClickOnStack
    \/ BeginStackFrame
    \/ RunThrowFrame
    \/ RunSettleFrame
    \/ NextStackCardLoaded
    \/ NextStackCardFails

SpecStack == InitStack /\ [][NextStack]_vars

----------------------------------------------------------------------------
(* Properties of the tracker *)

totalCards == stateManager.totalCards

\* a is a permutation of [0,n): length n, every value of 0..n-1 exactly once
IsPermutation(a, n) ==
    /\ Len(a) = n
    /\ \A v \in 0..(n - 1) : Cardinality({k \in 1..Len(a) : a[k] = v}) = 1

\* The snapshot in the cookie store, parsed
Persisted(jar) == JSONparse(getCookie(jar, cookieName).text)

\* The persisted snapshot is the in-memory {permutation, cursor}.
PersistedIsMemory ==
    /\ ~getCookie(documentCookie, cookieName).isNull
    /\ Persisted(documentCookie).ok
    /\ Persisted(documentCookie).indices = JsArr(stateManager.shuffledIndices)
    /\ Persisted(documentCookie).current = JsNum(stateManager.currentCardIndex)

\* The cookie the last load() found could not be parsed, or held an indices
\* array of another length than the deck.
FoundMismatch ==
    LET saved == getCookie(loadedFrom, cookieName)
        state == JSONparse(saved.text)
    IN  /\ ~saved.isNull
        /\ \/ ~state.ok
           \/ state.k = "obj" /\ state.indices.k = "arr"
              /\ Len(state.indices.a) # totalCards

\* C3 (as claimed): after load(), whatever the cookie held, the tracker's
\* permutation is a bijection over [0,N) and its cursor lies in [0,N].
C3_LoadedStateIsValid ==
    op # "new" =>
        /\ IsPermutation(stateManager.shuffledIndices, totalCards)
        /\ stateManager.currentCardIndex \in 0..totalCards

\* C4: load() of a cookie that cannot be parsed or whose indices length is
\* not N rejects it: the tracker holds a fresh permutation of length N with
\* cursor 0, that state is persisted, and load() throws nothing.
C4_MismatchIsReset ==
    (op \in {"load", "loadThrew"} /\ FoundMismatch) =>
        /\ op = "load"
        /\ IsPermutation(stateManager.shuffledIndices, totalCards)
        /\ stateManager.currentCardIndex = 0
        /\ PersistedIsMemory

C4_Witness ==
    /\ op = "load"
    /\ FoundMismatch
    /\ JSONparse(getCookie(loadedFrom, cookieName).text).ok
    /\ totalCards = 3
    /\ stateManager.shuffledIndices = <<2, 0, 1>>
    /\ PersistedIsMemory

\* C5: save() followed by load() on a new tracker of the same deck size
\* restores the permutation and the cursor that were saved, and that load()
\* leaves the cookie store as it found it.
C5_RoundTrip ==
    (/\ op = "load"
     /\ snap.valid
     /\ IsPermutation(snap.sm.shuffledIndices, totalCards)
     /\ snap.sm.currentCardIndex \in 0..(totalCards - 1)) =>
        /\ stateManager = snap.sm
        /\ documentCookie = loadedFrom

C5_Witness ==
    /\ op = "load"
    /\ snap.valid
    /\ snap.sm.shuffledIndices = <<1, 2, 0>>
    /\ snap.sm.currentCardIndex = 2
    /\ stateManager = snap.sm

\* C6: reset() leaves shuffledIndices a permutation of exactly {0..N-1}
\* with the cursor at 0, whatever the random draws.
C6_ResetIsPermutation ==
    op = "reset" =>
        /\ IsPermutation(stateManager.shuffledIndices, totalCards)
        /\ stateManager.currentCardIndex = 0

C6_Witness ==
    /\ op = "reset"
    /\ stateManager.shuffledIndices = <<1, 2, 0>>
    /\ stateManager.currentCardIndex = 0

\* C7: of N calls of advance() from cursor 0, each of the first N-1 returns
\* true (more remain) and the N-th returns false (deck complete).
C7_AdvanceReturns ==
    op = "advance" =>
        /\ calls \in 1..(totalCards - 1) => ret = TRUE
        /\ calls = totalCards => ret = FALSE

C7_Witness ==
    /\ op = "advance"
    /\ totalCards = 3
    /\ calls = 3
    /\ ret = FALSE

\* C8 (as claimed): right after every advance() and every reset() the
\* persisted snapshot is the in-memory {permutation, cursor}.
C8_EveryAdvancePersists ==
    op \in {"advance", "reset"} => PersistedIsMemory

\* C8 (amended): right after every reset() and every advance() that returns
\* true the persisted snapshot is the in-memory {permutation, cursor}; the
\* advance() that returns false leaves the snapshot of the last card, one
\* behind the in-memory cursor.
C8_SuccessfulAdvancePersists ==
    /\ (op = "reset" \/ (op = "advance" /\ ret)) => PersistedIsMemory
    /\ (op = "advance" /\ ~ret) =>
          /\ Persisted(documentCookie).indices = JsArr(stateManager.shuffledIndices)
          /\ Persisted(documentCookie).current = JsNum(stateManager.currentCardIndex - 1)

C8_Witness ==
    /\ op = "advance"
    /\ ret
    /\ stateManager.currentCardIndex = 2
    /\ IsPermutation(stateManager.shuffledIndices, 3)
    /\ PersistedIsMemory

----------------------------------------------------------------------------
(* Properties of the tracker's accessors *)

\* The card list of a deck of n cards
CardList(n) == SubSeq(AllCardPaths, 1, n)

\* The tracker holds a permutation and a cursor on one of its cards
CursorOnCard ==
    /\ IsPermutation(stateManager.shuffledIndices, totalCards)
    /\ stateManager.currentCardIndex \in 0..(totalCards - 1)

\* C19: with the cursor in [0,N), getStackCardPath(offset) is
\* cards[permutation[cursor+offset]] while cursor+offset < N and null past
\* the end, getCurrentCardPath() is cards[permutation[cursor]],
\* getRemainingCards() is N - cursor, and after k successful advances from
\* cursor 0 the current card is cards[permutation[k]].
C19_Accessors ==
    CursorOnCard =>
        LET cards == CardList(totalCards)
            permutation == stateManager.shuffledIndices
            cursor == stateManager.currentCardIndex
        IN  /\ \A offset \in 0..(MaxN + 1) :
                  getStackCardPath(stateManager, cards, offset) =
                      IF cursor + offset < totalCards
                      THEN cards[permutation[cursor + offset + 1] + 1]
                      ELSE NoPath
            /\ getCurrentCardPath(stateManager, cards) = cards[permutation[cursor + 1] + 1]
            /\ getRemainingCards(stateManager) = totalCards - cursor
            /\ (op = "advance" /\ ret /\ calls >= 0) =>
                  getCurrentCardPath(stateManager, cards) = cards[permutation[calls + 1] + 1]

\* Permutation [2,0,1]: after two successful advances from cursor 0 the
\* current card is deck index 1, after deck indices 2 and 0
C19_Witness ==
    /\ op = "advance"
    /\ ret
    /\ calls = 2
    /\ stateManager.shuffledIndices = <<2, 0, 1>>
    /\ getCurrentCardPath(stateManager, CardList(3)) = AllCardPaths[2]
    /\ getStackCardPath(stateManager, CardList(3), 1) = NoPath

----------------------------------------------------------------------------
(* Properties of the frames *)

\* The renderCard calls of the frames the last step has rendered
StackDraws(frame) == {k \in 1..Len(frame) : frame[k].layer = "stack"}

\* C14: the depth of stack index i, depthStackBase + i * depthStackIncrement,
\* is strictly increasing in i and lies in [0.5, 1.0) for i in 0..4, with
\* the computed increment of app.js and with the constant 0.05 of the
\* refactored variant, and every stack card is drawn at that depth.
C14_StackDepths ==
    /\ \A i \in 0..(maxStackCards - 1) :
          /\ stackDepth(i) >= 500 /\ stackDepth(i) < 1000
          /\ variantStackDepth(i) >= 500 /\ variantStackDepth(i) < 1000
          /\ i > 0 => /\ stackDepth(i) > stackDepth(i - 1)
                      /\ variantStackDepth(i) > variantStackDepth(i - 1)
    /\ \A f \in 1..Len(drawn) : \A k \in StackDraws(drawn[f]) :
          /\ drawn[f][k].depth = stackDepth(drawn[f][k].index)
          /\ drawn[f][k].depth >= 500 /\ drawn[f][k].depth < 1000
          /\ \A j \in StackDraws(drawn[f]) :
                drawn[f][j].index < drawn[f][k].index => drawn[f][j].depth < drawn[f][k].depth

\* A frame with the full stack: the indices 0..4 are drawn
C14_Witness ==
    /\ Len(drawn) = 1
    /\ {drawn[1][k].index : k \in StackDraws(drawn[1])} = 0..(maxStackCards - 1)

\* C15: when remaining <= maxStackCards every stack layer whose position
\* stackSize - i is >= remaining - 1 is drawn with opacity 0 (with
\* remaining = 2 the sole stack card); when remaining > maxStackCards every
\* stack card is drawn at opacity 1.
C15_OpacityFalloff ==
    LET remaining == getRemainingCards(stateManager)
        stackSize == Min(maxStackCards, remaining - 1)
    IN  \A f \in 1..Len(drawn) : \A k \in StackDraws(drawn[f]) :
            /\ (remaining <= maxStackCards /\ stackSize - drawn[f][k].index >= remaining - 1)
                  => drawn[f][k].opacity = 0
            /\ remaining > maxStackCards => drawn[f][k].opacity = 1000
            /\ remaining = 2 => drawn[f][k].opacity = 0

\* Two cards remain: the frame draws one stack card, at opacity 0
C15_Witness ==
    /\ getRemainingCards(stateManager) = 2
    /\ Len(drawn) = 1
    /\ Cardinality(StackDraws(drawn[1])) = 1
    /\ \A k \in StackDraws(drawn[1]) : drawn[1][k].opacity = 0

\* Every stack draw of the frame has the brightness 1 - (i+1) * perLayerDarken
\* of its index i, so a draw nearer the current card is brighter
LayeredFromFront(frame, perLayerDarken) ==
    \A k \in StackDraws(frame) :
        /\ frame[k].darkenFactor = 100 - (frame[k].index + 1) * perLayerDarken
        /\ \A j \in StackDraws(frame) :
              frame[j].index < frame[k].index => frame[j].darkenFactor > frame[k].darkenFactor

\* C26: in steady state (no settle in progress) the stack entry at index i
\* (0 = nearest the current card) is drawn with brightness
\* 1 - (i+1) * perLayerDarken, by render of app.js and by renderStackCard of
\* the refactored variant, so the entry nearest the current card is the
\* brightest.
C26_SteadyBrightness ==
    /\ ~app.isSettling =>
          \A f \in 1..Len(drawn) : LayeredFromFront(drawn[f], stackDarkenPerLayer)
    /\ \A f \in 1..Len(variantDrawn) :
          LayeredFromFront(variantDrawn[f], variantStackDarkenPerLayer)

\* The part of it about render of app.js
RenderLayersFromFront ==
    ~app.isSettling => \A f \in 1..Len(drawn) : LayeredFromFront(drawn[f], stackDarkenPerLayer)

\* The deck position of the card the stack entry at index i holds
DeckPosition(i) == stateManager.currentCardIndex + 1 + i

\* C27: phantom-card suppression hides only nonexistent cards: a stack
\* entry that holds an existing, not yet shown card of the current pass
\* (deck position cursor+1+i < N) is never drawn with opacity 0; opacity 0
\* is used only for a layer that lies past the deck's end.
C27_HidesOnlyNonexistent ==
    \A f \in 1..Len(drawn) : \A k \in StackDraws(drawn[f]) :
        /\ DeckPosition(drawn[f][k].index) < Len(stateManager.shuffledIndices)
              => drawn[f][k].opacity # 0
        /\ drawn[f][k].opacity = 0
              => DeckPosition(drawn[f][k].index) >= Len(stateManager.shuffledIndices)

----------------------------------------------------------------------------
(* Properties of the stack entries *)

Within(v, limit) == -limit <= v /\ v <= limit

\* The entries of app.js and of the refactored variant's CardStack
AppEntries == {[rotation |-> app.cardRotations[k], offset |-> app.cardOffsets[k]] :
                  k \in 1..Len(app.cardRotations)}

VariantEntries == {[rotation |-> cardStack.rotations[k], offset |-> cardStack.offsets[k]] :
                      k \in 1..Len(cardStack.rotations)}

----------------------------------------------------------------------------
(* Properties of the application *)

ThrowCallbacks(queue) == {i \in 1..Len(queue) : queue[i].kind = "throw"}

\* The frame's next callback ends a throw: its elapsed time has reached
\* throwDuration, so it calls onCardThrowComplete
ThrowCompleting ==
    /\ app.frame # <<>>
    /\ Head(app.frame).kind = "throw"
    /\ Head(app.frame).elapsed >= throwDuration

\* C1: whenever no throw is in progress and no image load is in flight, the
\* image shown as the current card is the image of cards[permutation[cursor]].
C1_IdleShowsCurrentCard ==
    (/\ app.listening
     /\ ~app.isAnimating
     /\ app.frame = <<>>
     /\ app.loading = <<>>)
    => app.currentTexture.image = getCurrentCardPath(stateManager, app.cards)

\* C2: the step that completes a throw adds exactly 1 to the cursor and keeps
\* the permutation when the cursor was below N-1, and at cursor N-1 leaves a
\* permutation of the deck with the cursor at 0; no other step lowers the
\* cursor, and no step leaves the cursor at N (a deck of no cards gets no
\* tracker).
C2_ThrowAdvancesOrReshuffles ==
    [][/\ ThrowCompleting =>
             IF stateManager.currentCardIndex < totalCards - 1
             THEN /\ stateManager'.currentCardIndex = stateManager.currentCardIndex + 1
                  /\ stateManager'.shuffledIndices = stateManager.shuffledIndices
             ELSE /\ stateManager'.currentCardIndex = 0
                  /\ IsPermutation(stateManager'.shuffledIndices, totalCards)
       /\ ~ThrowCompleting =>
             stateManager'.currentCardIndex >= stateManager.currentCardIndex
       /\ app'.cards # <<>> => stateManager'.currentCardIndex # Len(cardsJson)]_vars

\* A throw has completed on the second card of a deck of three: the cursor
\* is on the third card and the stack settles behind it
C2_Witness ==
    /\ Len(cardsJson) = 3
    /\ stateManager.currentCardIndex = 2
    /\ app.isSettling
    /\ ~app.isAnimating

\* C9: a click or touchstart received during the throw phase or the settle
\* phase changes nothing of the tracker, the stack or the animation.
C9_ClickDuringAnimationIgnored ==
    [][(Click /\ (app.isAnimating \/ app.isSettling))
          => UNCHANGED <<app, stateManager, documentCookie>>]_vars

\* C10: a throw and a settle are never in progress together (isAnimating and
\* isSettling are never both true), and at most one throw is in progress.
C10_OneAnimationAtATime ==
    /\ ~(app.isAnimating /\ app.isSettling)
    /\ Cardinality(ThrowCallbacks(app.raf)) + Cardinality(ThrowCallbacks(app.frame)) <= 1

\* The draws of a frame are the stack's, from the back of the stack to its
\* front, and then the current card's, which is nearer than all of them
FrameInOrder(frame) ==
    \A k \in 1..Len(frame) :
        /\ frame[k].layer = "current" => k = Len(frame) /\ frame[k].depth = depthCurrent
        /\ frame[k].layer = "stack" => depthCurrent < frame[k].depth
        /\ (k < Len(frame) /\ frame[k + 1].layer = "stack")
              => frame[k].layer = "stack" /\ frame[k].index > frame[k + 1].index

\* C13: in every rendered frame the stack entries are drawn in strictly
\* decreasing index order, the current card is drawn after all of them, and
\* depthCurrent is strictly smaller than the depth of every stack entry
\* drawn.
C13_DrawOrder == \A f \in 1..Len(drawn) : FrameInOrder(drawn[f])

\* A frame of a throw with two stack cards behind the thrown card
C13_Witness ==
    /\ app.isAnimating
    /\ \E f \in 1..Len(drawn) :
          /\ Len(drawn[f]) = 3
          /\ drawn[f][1].index = 1
          /\ drawn[f][2].index = 0
          /\ drawn[f][3].layer = "current"

\* C17: once a load of a path has completed, every later load of the path
\* returns the same texture without a fetch, and no entry of the cache is
\* ever removed or replaced: every step keeps every entry the cache holds.
C17_CacheKeepsEntries ==
    [][\A path \in DOMAIN app.textureCache :
          /\ path \in DOMAIN app'.textureCache
          /\ app'.textureCache[path] = app.textureCache[path]]_vars

\* The loads init() waits for
InitLoads == {k \in 1..Len(app.loading) : app.loading[k].caller = "init"
                                          /\ app.loading[k].kind # "loadTexture"}

\* The fetches under way, as pairs of a load and an image
Fetches(a) ==
    UNION {{<<k, path>> : path \in ({a.loading[k].path} \cup a.loading[k].waiting) \ {NoPath}} :
              k \in 1..Len(a.loading)}

\* init() has not run, waits for an image, has opened the page, or has
\* ended in the error state: the error is displayed, the canvas has no
\* listener and no frame, and nothing is scheduled
InitOutcome ==
    \/ /\ app.cards = <<>>
       /\ app.errorEl = ""
       /\ app = NewCardStudyApp
    \/ /\ Cardinality(InitLoads) = 1
       /\ app.errorEl = ""
       /\ app.loadingEl
       /\ ~app.listening
       /\ ~app.painted
    \/ /\ InitLoads = {}
       /\ app.errorEl = ""
       /\ ~app.loadingEl
       /\ app.listening
       /\ app.painted
    \/ /\ InitLoads = {}
       /\ app.errorEl # ""
       /\ ~app.loadingEl
       /\ ~app.listening
       /\ ~app.painted
       /\ ~app.isAnimating
       /\ ~app.isSettling
       /\ app.raf = <<>>
       /\ app.frame = <<>>

\* In the error state a step renders nothing, leaves the tracker, the
\* cookie and the app as they are but for the fetches that end, and starts
\* no fetch
ErrorIsFinal ==
    app.errorEl # ""
       => /\ drawn' = <<>>
          /\ UNCHANGED <<stateManager, documentCookie>>
          /\ [app' EXCEPT !.loading = app.loading, !.textureCache = app.textureCache] = app
          /\ Cardinality(Fetches(app')) <= Cardinality(Fetches(app))

\* An init() that cannot go on ends in the error state: with no card in the
\* list, and when the load it waits for ends without the image
ErrorIsShown ==
    /\ (app.cards = <<>> /\ app.errorEl = "" /\ app' # app /\ cardsJson = <<>>)
          => app'.errorEl # ""
    /\ (Cardinality(InitLoads) = 1 /\ app'.textureCache = app.textureCache /\ app' # app)
          => app'.errorEl = "Failed to load image"

\* C18: a fatal initialisation error (no WebGPU, the card list missing or
\* empty, no adapter, an image of the first load failing) leaves the app in
\* the error state: the message is displayed, the listeners are never
\* installed, no frame is rendered, a click has no effect and nothing is
\* tried again.
C18_FatalInitError == []InitOutcome /\ [][ErrorIsFinal /\ ErrorIsShown]_vars

\* The first load's Promise.all has failed on one image of a deck of three
\* while the fetch of the other goes on
C18_Witness ==
    /\ app.errorEl = "Failed to load image"
    /\ Len(cardsJson) = 3
    /\ \E k \in 1..Len(app.loading) : app.loading[k].kind = "loadTexture"

\* nextCardRotation and nextCardOffset as onCardThrowComplete captures them:
\* those of the front stack entry, zero with no entry
FrontPose(a) ==
    [rotation |-> IF Len(a.cardRotations) > 0 THEN a.cardRotations[1] ELSE 0,
     offset |-> IF Len(a.cardOffsets) > 0 THEN a.cardOffsets[1] ELSE ZeroOffset]

NonZeroPose(pose) == pose.rotation # 0 \/ pose.offset.x # 0 \/ pose.offset.y # 0

\* The settles started and not yet in a frame
NewSettles(a) == {i \in 1..Len(a.raf) : a.raf[i].kind = "settle" /\ a.raf[i].elapsed = 0}

\* The calls of onCardThrowComplete that wait for loadCurrentCards
AwaitingThrows(loads) == SelectSeq(loads, LAMBDA ld : ld.caller = "onCardThrowComplete")

\* The step runs onCardThrowComplete to its end: with the throw's last
\* frame when it awaits no fetch, or with the end of the load it awaits
EndsWithThrow ==
    /\ ThrowCompleting
    /\ AwaitingThrows(app'.loading) = AwaitingThrows(app.loading)

EndsWithLoad(k) ==
    /\ app.frame = <<>>
    /\ app.loading[k].caller = "onCardThrowComplete"
    /\ AwaitingThrows(app'.loading) = AwaitingThrows(RemoveAt(app.loading, k))

\* What the end of onCardThrowComplete does for a captured pose: the settle
\* is started from the pose, or no settle is started, the app is idle and
\* the frame it renders shows the current card at full brightness
SettleOrIdle(pose) ==
    IF NonZeroPose(pose)
    THEN /\ Cardinality(NewSettles(app')) = Cardinality(NewSettles(app)) + 1
         /\ app'.isSettling
         /\ app'.settleProgress = 0
         /\ app'.currentCardInitialRotation = pose.rotation
         /\ app'.currentCardInitialOffset = pose.offset
    ELSE /\ NewSettles(app') = NewSettles(app)
         /\ ~app'.isSettling
         /\ drawn' # <<>>
         /\ LET frame == drawn'[Len(drawn')]
            IN  /\ frame # <<>>
                /\ frame[Len(frame)].layer = "current"
                /\ frame[Len(frame)].darkenFactor = 100

\* C11: when a throw has completed, the settle starts if and only if the
\* front stack entry captured at the completion has a nonzero rotation or
\* offset component; when all are zero (an empty stack included) the settle
\* is skipped and the app goes straight to idle with the current card drawn
\* at full brightness.
C11_SettleIffPose ==
    [][/\ EndsWithThrow => SettleOrIdle(FrontPose(app))
       /\ \A k \in 1..Len(app.loading) :
             EndsWithLoad(k) => SettleOrIdle([rotation |-> app.loading[k].nextCardRotation,
                                              offset |-> app.loading[k].nextCardOffset])]_vars

\* The renderCard call for the current card in a frame
CurrentDraw(frame) == frame[Len(frame)]

\* The frame a throw's callback renders shows the current card at opacity
\* 1 - progress and brightness 1, moved and turned by the throw's vector
\* and rotation times the eased progress
ThrowFrameFades ==
    (app.frame # <<>> /\ Head(app.frame).kind = "throw")
       => /\ drawn' # <<>>
          /\ drawn'[1] # <<>>
          /\ LET card == CurrentDraw(drawn'[1])
                 progress == (Min(Head(app.frame).elapsed, throwDuration) * 1000) \div throwDuration
                 eased == easeOutCubic(progress)
             IN  /\ card.layer = "current"
                 /\ card.texture = app.currentTexture
                 /\ card.opacity = 1000 - progress
                 /\ card.darkenFactor = 100
                 /\ card.offsetX = (app.throwDirection.x * eased) \div 1000
                 /\ card.offsetY = (app.throwDirection.y * eased) \div 1000
                 /\ card.rotation = (app.throwRotation * eased) \div 1000
                 /\ ThrowCompleting => card.opacity = 0

\* The last frame a step renders does not show at full opacity a card whose
\* throw has completed
ThrownStaysAway ==
    (drawn' # <<>> /\ drawn'[Len(drawn')] # <<>> /\ app'.thrownIsCurrent)
       => LET card == CurrentDraw(drawn'[Len(drawn')])
          IN  ~(card.layer = "current" /\ card.opacity = 1000)

\* C20: in every frame of a throw, the completing frame included, the
\* thrown card is drawn with opacity 1 - progress, brightness 1 and the
\* throw's vector and rotation times the cubic-eased progress; it is fully
\* transparent on the completing frame and is never drawn again at full
\* opacity after its throw has reached progress 1.
C20_ThrownCardFades == [][ThrowFrameFades /\ ThrownStaysAway]_vars

\* The first half of it alone
ThrowFramesFade == [][ThrowFrameFades]_vars

SettleCallbacks(queue) == {i \in 1..Len(queue) : queue[i].kind = "settle"}

ThrowsInFlight == Cardinality(ThrowCallbacks(app.raf)) + Cardinality(ThrowCallbacks(app.frame))

SettlesInFlight == Cardinality(SettleCallbacks(app.raf)) + Cardinality(SettleCallbacks(app.frame))

\* A throw in progress has exactly one callback scheduled or being run, a
\* settle in progress at least one
AnimationsScheduled ==
    /\ ThrowsInFlight <= 1
    /\ app.isAnimating <=> ThrowsInFlight = 1
    /\ app.isSettling => SettlesInFlight >= 1

\* The frame that takes a throw to progress 1 completes it, and leaves no
\* callback of it; no other step ends a throw
CompletesOnce ==
    /\ ThrowCompleting
          => /\ app.isAnimating
             /\ ~app'.isAnimating
             /\ app'.animationProgress = throwDuration
             /\ Cardinality(ThrowCallbacks(app'.raf)) + Cardinality(ThrowCallbacks(app'.frame)) = 0
    /\ (app.isAnimating /\ ~app'.isAnimating) => ThrowCompleting

\* In app.js no animation is cancelled: with the frames going on, every
\* throw started reaches progress 1 and triggers exactly one completion, and
\* every settle started reaches progress 1 and returns the app to idle.
C12_AnimationsComplete ==
    /\ []AnimationsScheduled
    /\ [][CompletesOnce]_vars
    /\ app.isAnimating ~> (~app.isAnimating /\ app.animationProgress = throwDuration)
    /\ app.isSettling ~> (~app.isSettling /\ app.settleProgress = settleDuration)

\* A throw and the settle it started have both reached progress 1
C12_Witness ==
    /\ app.listening
    /\ ~app.isAnimating
    /\ app.animationProgress = throwDuration
    /\ ~app.isSettling
    /\ app.settleProgress = settleDuration
    /\ app.currentCardInitialRotation # 0
    /\ app.raf = <<>>
    /\ app.frame = <<>>

\* The step completes none of the loadCurrentCards() calls that
\* onCardThrowComplete awaits
KeepsThrowsAwaiting ==
    /\ AwaitingThrows(app.loading) # <<>>
    /\ Len(AwaitingThrows(app'.loading)) >= Len(AwaitingThrows(app.loading))

\* C30: an awaited load gates the state changes that follow it and is never
\* interleaved with rendering: while the loadCurrentCards() awaited inside
\* the throw-completion step (reshuffle after the last card, or empty-stack
\* fallback) is pending, no frame is rendered and no new throw starts.
C30_AwaitedLoadGates ==
    [][KeepsThrowsAwaiting =>
          /\ drawn' = <<>>
          /\ ~(~app.isAnimating /\ app'.isAnimating)]_vars

\* The part of it about rendering alone
NoFrameWhileAwaiting == [][KeepsThrowsAwaiting => drawn' = <<>>]_vars

\* The fetches of an image under way
FetchesOf(a, path) == {f \in Fetches(a) : f[2] = path}

\* The images the loadCurrentCards() of a throw completion asks loadTexture
\* for before it first waits: the current card's, and with that one cached
\* those of the stack
AskedFor(sm, cards) ==
    {getCurrentCardPath(sm, cards)}
    \cup (IF getCurrentCardPath(sm, cards) \in DOMAIN app.textureCache
          THEN {getStackCardPath(sm, cards, i) : i \in 1..Min(preloadCount, getRemainingCards(sm))}
               \ {NoPath}
          ELSE {})

\* A throw completion that goes on to wait for loadCurrentCards() starts a
\* fetch of each uncached image it asks for, whatever fetches of that image
\* are under way
EveryCallFetches ==
    (/\ ThrowCompleting
     /\ Len(AwaitingThrows(app'.loading)) = Len(AwaitingThrows(app.loading)) + 1)
    => \A path \in AskedFor(stateManager', app.cards) \ DOMAIN app.textureCache :
           Cardinality(FetchesOf(app', path)) = Cardinality(FetchesOf(app, path)) + 1

\* A fetch that ends with its image makes a texture of its own and stores
\* it, over the texture an earlier load of the path has stored
EveryFetchStores ==
    \A path \in DOMAIN app'.textureCache :
        (/\ Cardinality(FetchesOf(app', path)) < Cardinality(FetchesOf(app, path))
         /\ app'.errorEl = app.errorEl
         /\ app.errorEl = "")
        => /\ app'.textureCache[path].image = path
           /\ path \in DOMAIN app.textureCache
                 => /\ app'.textureCache[path] # app.textureCache[path]
                    /\ app'.textureCache[path].id = app.textureCache[path].id + 1

\* C28: in-flight loads are not shared: a load of an uncached path called
\* while an earlier load of the path has not completed issues its own
\* fetch and creates its own texture, and the later completion overwrites
\* the cache entry the earlier one wrote.
C28_LoadsNotShared == [][EveryCallFetches /\ EveryFetchStores]_vars

\* Two loads of one image have completed: the cache holds the second
\* texture, the current card is drawn with the first
C28_Witness ==
    \E path \in DOMAIN app.textureCache :
        /\ app.textureCache[path].id = 2
        /\ app.currentTexture = Texture(path, 1)

\* Two fetches of one image are under way
TwoFetchesOfOneImage ==
    \E k \in 1..Len(app.cards) : Cardinality(FetchesOf(app, app.cards[k])) = 2

----------------------------------------------------------------------------
(* Properties of the settle and of the stack in use *)

\* The frame's next callback is a settle's, and the progress it renders
SettleFrameDue ==
    /\ app.frame # <<>>
    /\ Head(app.frame).kind = "settle"

SettleFrameProgress == (Min(Head(app.frame).elapsed, settleDuration) * 1000) \div settleDuration

\* A throw completion that takes the front stack entry as the current card
\* and starts the settle starts it from that entry's rotation and offset
SettlesFromFront ==
    (/\ ThrowCompleting
     /\ app.nextTextures # <<>>
     /\ Cardinality(NewSettles(app')) = Cardinality(NewSettles(app)) + 1)
    => /\ app'.currentTexture = app.nextTextures[1]
       /\ app'.currentCardInitialRotation = app.cardRotations[1]
       /\ app'.currentCardInitialOffset = app.cardOffsets[1]

\* The frame a settle's callback renders shows the current card at opacity
\* 1; at progress 0 with the rotation, offset and brightness of the front
\* stack entry it was, at progress 1 centred, unrotated and at brightness 1
SettleFrameOfCurrent ==
    SettleFrameDue
       => /\ drawn' # <<>>
          /\ drawn'[1] # <<>>
          /\ LET card == CurrentDraw(drawn'[1])
             IN  /\ card.layer = "current"
                 /\ card.texture = app.currentTexture
                 /\ card.opacity = 1000
                 /\ SettleFrameProgress = 0
                       => /\ card.rotation = app.currentCardInitialRotation
                          /\ card.offsetX = normalized(app.currentCardInitialOffset.x,
                                                       window.innerWidth)
                          /\ card.offsetY = normalized(app.currentCardInitialOffset.y,
                                                       window.innerHeight)
                          /\ card.darkenFactor = 100 - stackDarkenPerLayer
                 /\ SettleFrameProgress = 1000
                       => /\ card.rotation = 0
                          /\ card.offsetX = 0
                          /\ card.offsetY = 0
                          /\ card.darkenFactor = 100

\* C21: on the first frame of a settle (progress 0) the new current card is
\* drawn with exactly the rotation and pixel offset it had as front stack
\* entry (index 0) before the shift and with brightness
\* 1 - perLayerDarken; at progress 1 it is drawn centred (offset 0),
\* unrotated, at brightness 1; its opacity is 1 throughout the settle.
C21_SettleOfCurrentCard == [][SettlesFromFront /\ SettleFrameOfCurrent]_vars

\* The same while no throw is in progress
SettleFrameOfCurrentUnthrown == [][SettlesFromFront /\ (~app.isAnimating => SettleFrameOfCurrent)]_vars

\* The opacity alone: every frame of a settle shows the current card at
\* opacity 1
SettleFramesOpaque ==
    [][SettleFrameDue => (drawn' # <<>> /\ drawn'[1] # <<>>
                          /\ CurrentDraw(drawn'[1]).opacity = 1000)]_vars

\* A settle's frame at progress 0 has drawn the current card where the front
\* stack entry was
SettleFrameAtZero ==
    /\ app.isSettling
    /\ ~app.isAnimating
    /\ app.settleProgress = 0
    /\ Len(drawn) = 1
    /\ drawn[1] # <<>>
    /\ CurrentDraw(drawn[1]).rotation = app.currentCardInitialRotation
    /\ CurrentDraw(drawn[1]).rotation # 0
    /\ CurrentDraw(drawn[1]).darkenFactor = 100 - stackDarkenPerLayer

\* The throw completion takes the front stack entry as the current card
Shifts ==
    /\ ThrowCompleting
    /\ app.nextTextures # <<>>
    /\ stateManager'.currentCardIndex = stateManager.currentCardIndex + 1

\* The stack draw of index i in a frame, as a set of at most one draw
StackDrawOf(frame, i) == {frame[k] : k \in {j \in StackDraws(frame) : frame[j].index = i}}

\* The prior brightness captured at a shift for the entry that moves to
\* index i - 1 is the brightness the completing frame has drawn it with at
\* index i
CapturesDrawn ==
    Shifts =>
        /\ Len(app'.settleStackDarkenFactors) = Len(app.nextTextures) - 1
        /\ \A i \in 1..Len(app'.settleStackDarkenFactors) :
              \A d \in StackDrawOf(drawn'[1], i) :
                  /\ d.texture = app.nextTextures[i + 1]
                  /\ app'.settleStackDarkenFactors[i] = d.darkenFactor

\* The progress of the settle in the frame the next callback renders
RenderedSettleProgress ==
    IF SettleFrameDue THEN SettleFrameProgress ELSE settleProgressOf(app)

\* A frame rendered during a settle draws every entry that was in the stack
\* at the shift with a brightness between its prior brightness and that of
\* its layer, by the cubic ease of the settle's progress
SettleFrameOfStack ==
    (app.frame # <<>> /\ app.isSettling)
       => /\ drawn' # <<>>
          /\ \A i \in 0..(Len(app.settleStackDarkenFactors) - 1) :
                \A d \in StackDrawOf(drawn'[1], i) :
                    LET prior == At(app.settleStackDarkenFactors, i)
                        target == 100 - (i + 1) * stackDarkenPerLayer
                        eased == 1000 - ((1000 - RenderedSettleProgress)
                                           * (1000 - RenderedSettleProgress)
                                           * (1000 - RenderedSettleProgress)) \div 1000000
                    IN  /\ d.texture = At(app.nextTextures, i)
                        /\ prior = 100 - (i + 2) * stackDarkenPerLayer
                        /\ d.darkenFactor = prior + ((target - prior) * eased) \div 1000
                        /\ RenderedSettleProgress = 0 => d.darkenFactor = prior
                        /\ RenderedSettleProgress = 1000 => d.darkenFactor = target

\* C22: during a settle, every stack entry that was already in the stack
\* before the shift is drawn at progress 0 with the brightness it was drawn
\* with in its previous layer just before the shift, and at progress 1 with
\* the steady-state brightness of its new layer, following the cubic ease
\* in between.
C22_StackBrightnessSettles == [][CapturesDrawn /\ SettleFrameOfStack]_vars

\* Half way through a settle the front stack entry, drawn at brightness 0.5
\* before the shift, is drawn at 0.71 on its way to 0.75, behind it the
\* entry the load has appended since the shift
C22_Witness ==
    /\ app.isSettling
    /\ app.settleProgress = 100
    /\ Len(app.nextTextures) = maxStackCards
    /\ Len(drawn) = 1
    /\ \E d \in StackDrawOf(drawn[1], 0) : d.darkenFactor = 71
    /\ \E d \in StackDrawOf(drawn[1], 3) : d.darkenFactor = -4

\* The loads of stack cards that throw completions have started
StackCardLoads(a) == SelectSeq(a.loading, LAMBDA ld : ld.kind = "loadNextStackCard")

\* The step is the end of such a load with its image: the texture is cached
StackCardArrives ==
    /\ Len(StackCardLoads(app')) < Len(StackCardLoads(app))
    /\ app'.textureCache # app.textureCache

\* The entry the load appends has no prior brightness
ArrivesWithoutPrior ==
    StackCardArrives =>
        /\ Len(app'.nextTextures) = Len(app.nextTextures) + 1
        /\ app'.cardDarkenFactors = Append(app.cardDarkenFactors, NullDarken)

\* The stack entries of an app that have been appended since the last shift
Fresh(a) == {i \in 0..(Len(a.cardDarkenFactors) - 1) : At(a.cardDarkenFactors, i) = NullDarken}

\* The frame draws every such entry at the brightness of its layer
FreshAtLayer(frame, a) ==
    \A i \in Fresh(a) : \A d \in StackDrawOf(frame, i) :
        d.darkenFactor = 100 - (i + 1) * stackDarkenPerLayer

\* The frame a callback renders first shows the stack as the step found it,
\* the frame a step renders last shows it as the step leaves it
FreshDrawnAtLayer ==
    /\ (app.frame # <<>> /\ drawn' # <<>>) => FreshAtLayer(drawn'[1], app)
    /\ (drawn' # <<>> /\ (app.frame = <<>> \/ Len(drawn') > 1))
          => FreshAtLayer(drawn'[Len(drawn')], app')

\* C23: a stack entry appended by a load that completes while a settle is
\* in progress has no prior brightness (null) and is drawn, in every frame
\* from its first appearance, at the steady-state brightness of its layer,
\* without interpolation.
C23_FreshEntryAtLayer == [][ArrivesWithoutPrior /\ FreshDrawnAtLayer]_vars

\* Half way through a settle the entry appended since the shift is drawn at
\* the brightness of layer 5, the entry before it on its way from there
C23_Witness ==
    /\ app.isSettling
    /\ app.settleProgress = 100
    /\ Len(app.settleStackDarkenFactors) = maxStackCards - 1
    /\ Fresh(app) = {maxStackCards - 1}
    /\ Len(drawn) = 1
    /\ \E d \in StackDrawOf(drawn[1], maxStackCards - 1) :
          d.darkenFactor = 100 - maxStackCards * stackDarkenPerLayer
    /\ \E d \in StackDrawOf(drawn[1], maxStackCards - 2) :
          d.darkenFactor > 100 - maxStackCards * stackDarkenPerLayer

\* The frame draws every stack entry with the rotation and the pixel offset
\* the stack arrays of the app hold for it
DrawnAsAssigned(frame, a, win) ==
    \A i \in 0..(Len(a.cardRotations) - 1) : \A d \in StackDrawOf(frame, i) :
        /\ d.rotation = At(a.cardRotations, i)
        /\ d.offsetX = normalized(At(a.cardOffsets, i).x, win.innerWidth)
        /\ d.offsetY = normalized(At(a.cardOffsets, i).y, win.innerHeight)

\* C24: a stack entry's rotation and offset are assigned once when it
\* enters the stack and stay the same until it becomes current: in every
\* frame from its first appearance until it is shifted out, the entry is
\* drawn with that same rotation and that same pixel offset, also when it
\* was appended while a settle was in progress.
C24_EntryPoseKept ==
    [][/\ (app.frame # <<>> /\ drawn' # <<>>) => DrawnAsAssigned(drawn'[1], app, window)
       /\ (drawn' # <<>> /\ (app.frame = <<>> \/ Len(drawn') > 1))
             => DrawnAsAssigned(drawn'[Len(drawn')], app', window')]_vars

\* The same for the frames outside a settle
EntryPoseKeptIdle ==
    [][(~app.isSettling /\ app.frame # <<>> /\ drawn' # <<>>)
          => DrawnAsAssigned(drawn'[1], app, window)]_vars

\* A frame of a settle that draws an entry appended since the shift
SettleDrawsAppended ==
    /\ app.isSettling
    /\ Len(drawn) = 1
    /\ Len(app.settleStackRotations) < Len(app.cardRotations)
    /\ StackDrawOf(drawn[1], Len(app.cardRotations) - 1) # {}

\* The first k entries of an array
Prefix(array, k) == SubSeq(array, 1, Min(k, Len(array)))

\* A stack card's load that ends with its image while a settle is in
\* progress leaves the settle, its snapshot of the stack and its pending
\* frames as they are, and every entry of the stack in its place
ArrivalKeepsSettle ==
    (StackCardArrives /\ app.isSettling) =>
        /\ app'.isSettling
        /\ app'.settleProgress = app.settleProgress
        /\ app'.settleStackRotations = app.settleStackRotations
        /\ app'.settleStackOffsets = app.settleStackOffsets
        /\ app'.settleStackDarkenFactors = app.settleStackDarkenFactors
        /\ app'.raf = app.raf
        /\ Prefix(app'.nextTextures, Len(app.nextTextures)) = app.nextTextures
        /\ Prefix(app'.cardRotations, Len(app.cardRotations)) = app.cardRotations
        /\ Prefix(app'.cardOffsets, Len(app.cardOffsets)) = app.cardOffsets
        /\ Prefix(app'.cardDarkenFactors, Len(app.cardDarkenFactors)) = app.cardDarkenFactors

\* A frame rendered during a settle draws every entry that was in the stack
\* at the shift from the settle's snapshot and progress alone
SettleDrawsFromSnapshot ==
    (app.frame # <<>> /\ app.isSettling)
       => /\ drawn' # <<>>
          /\ \A i \in 0..(Len(app.settleStackRotations) - 1) :
                \A d \in StackDrawOf(drawn'[1], i) :
                    LET prior == At(app.settleStackDarkenFactors, i)
                        target == 100 - (i + 1) * stackDarkenPerLayer
                    IN  /\ d.texture = At(app.nextTextures, i)
                        /\ d.rotation = At(app.settleStackRotations, i)
                        /\ d.offsetX = normalized(At(app.settleStackOffsets, i).x,
                                                  window.innerWidth)
                        /\ d.offsetY = normalized(At(app.settleStackOffsets, i).y,
                                                  window.innerHeight)
                        /\ d.darkenFactor =
                              prior + ((target - prior) * easeOutCubic(RenderedSettleProgress))
                                         \div 1000

\* C25: the completion of a stack-card load while a settle is in progress
\* changes neither the rotation, the offset nor the brightness with which
\* any entry already in the stack is drawn in the remaining frames of that
\* settle: the load leaves the settle's snapshot and progress alone, and
\* the frames draw those entries from the snapshot and the progress.
C25_LoadKeepsSettleDraws == [][ArrivalKeepsSettle /\ SettleDrawsFromSnapshot]_vars

\* Half way through a settle, with an entry appended since the shift, the
\* front entry is drawn with the rotation it had at the shift
C25_Witness ==
    /\ app.isSettling
    /\ app.settleProgress = 100
    /\ Len(app.cardRotations) = Len(app.settleStackRotations) + 1
    /\ Len(drawn) = 1
    /\ At(app.settleStackRotations, 0) # 0
    /\ \E d \in StackDrawOf(drawn[1], 0) : d.rotation = At(app.settleStackRotations, 0)

\* The step is the end of a stack card's load without its image: nothing
\* is cached
StackCardFails ==
    /\ Len(StackCardLoads(app')) < Len(StackCardLoads(app))
    /\ app'.textureCache = app.textureCache

\* The loads under way after the step are those under way before it, but one
NoRetry ==
    /\ \E k \in 1..Len(app.loading) : app'.loading = RemoveAt(app.loading, k)
    /\ app'.raf = app.raf

\* C29: when the stack-card load started by a throw completion fails, its
\* handler starts no retry, no entry is appended to any stack array (the
\* texture, rotation and offset arrays keep equal lengths), the
\* isLoadingStackCard flag is cleared, and the tracker's cursor and persisted
\* snapshot are unchanged by the failure.
C29_StackLoadFailure ==
    [][StackCardFails =>
          /\ NoRetry
          /\ app'.nextTextures = app.nextTextures
          /\ app'.cardRotations = app.cardRotations
          /\ app'.cardOffsets = app.cardOffsets
          /\ app'.cardDarkenFactors = app.cardDarkenFactors
          /\ Len(app'.cardRotations) = Len(app'.nextTextures)
          /\ Len(app'.cardOffsets) = Len(app'.nextTextures)
          /\ ~app'.isLoadingStackCard
          /\ app'.currentTexture = app.currentTexture
          /\ stateManager' = stateManager
          /\ documentCookie' = documentCookie]_vars

\* After a throw completion whose stack card has failed to load: the stack
\* is one entry short, no load is under way and the flag is clear
C29_Witness ==
    /\ stateManager.currentCardIndex = 1
    /\ Len(app.nextTextures) = maxStackCards - 1
    /\ app.loading = <<>>
    /\ ~app.isLoadingStackCard
    /\ ~app.isAnimating

\* The card whose load failed is asked for again by the next throw
\* completion
AskedAgainAfterFailure ==
    /\ stateManager.currentCardIndex = 2
    /\ Len(app.nextTextures) = maxStackCards - 2
    /\ \E k \in 1..Len(app.loading) :
          /\ app.loading[k].kind = "loadNextStackCard"
          /\ app.loading[k].path = AllCardPaths[StackDeck]

----------------------------------------------------------------------------
(* setupCanvas: the size of a card *)

\* Card sizes are fractions of a pixel: [n, d] with d > 0, in lowest terms
RECURSIVE GCD(_, _)
GCD(a, b) == IF b = 0 THEN a ELSE GCD(b, a % b)

Rat(n, d) == [n |-> n \div GCD(n, d), d |-> d \div GCD(n, d)]

\* x * y
RatMul(x, y) ==
    LET g1 == GCD(x.n, y.d)
        g2 == GCD(y.n, x.d)
    IN  Rat((x.n \div g1) * (y.n \div g2), (x.d \div g2) * (y.d \div g1))

\* x / y for y > 0
RatDiv(x, y) == RatMul(x, [n |-> y.d, d |-> y.n])

\* x <= y, x < y: the cross products, less the factors the two share
RatLE(x, y) ==
    LET gn == IF x.n = 0 /\ y.n = 0 THEN 1 ELSE GCD(x.n, y.n)
        gd == GCD(x.d, y.d)
    IN  (x.n \div gn) * (y.d \div gd) <= (y.n \div gn) * (x.d \div gd)
RatLT(x, y) == ~RatLE(y, x)

\* Math.min(x, y)
RatMin(x, y) == IF RatLE(x, y) THEN x ELSE y

\* CONFIG.cardWidthMM, CONFIG.cardHeightMM: the physical size of a card
cardWidthMM == 63
cardHeightMM == 88
\* CONFIG.minCardMargin, in pixels
minCardMargin == 0
\* The refactored variant's CONFIG.viewportCardLimit, 0.9
viewportCardLimit == [n |-> 9, d |-> 10]

\* const mmToCssPixel = 96 / 25.4
mmToCssPixel == Rat(960, 254)

\* const mmToPixel = (96 / 25.4) * dpi, of the refactored variant
mmToPixel(dpi) == RatMul(mmToCssPixel, Rat(dpi, 100))

\* A setupCanvas() that scales to the viewport's width alone.
setupCanvasByWidth(win) ==
    LET cardWidthCss == RatMul(Rat(cardWidthMM, 1), mmToCssPixel)
        cardHeightCss == RatMul(Rat(cardHeightMM, 1), mmToCssPixel)
        maxWidth == Rat(win.innerWidth - (minCardMargin * 2), 1)
        scale == IF win.innerWidth < 400 \/ RatLT(maxWidth, cardWidthCss)
                 THEN RatDiv(maxWidth, cardWidthCss)
                 ELSE Rat(1, 1)
    IN  [set |-> TRUE, scale |-> scale,
         cardWidth |-> RatMul(cardWidthCss, scale),
         cardHeight |-> RatMul(cardHeightCss, scale)]

\* updateSize() of setupCanvas() in app.js: the scale and the card size it stores
setupCanvas(win) ==
    LET cardWidthCss == RatMul(Rat(cardWidthMM, 1), mmToCssPixel)
        cardHeightCss == RatMul(Rat(cardHeightMM, 1), mmToCssPixel)
        margin == minCardMargin
        maxWidth == Rat(win.innerWidth - (margin * 2), 1)
        maxHeight == Rat(win.innerHeight - (margin * 2), 1)
        scaleByWidth == RatDiv(maxWidth, cardWidthCss)
        scaleByHeight == RatDiv(maxHeight, cardHeightCss)
        scale == IF win.innerWidth < 400
                 THEN RatMin(scaleByWidth, scaleByHeight)
                 ELSE IF RatLT(maxWidth, cardWidthCss) \/ RatLT(maxHeight, cardHeightCss)
                      THEN RatMin(scaleByWidth, scaleByHeight)
                      ELSE Rat(1, 1)
    IN  [set |-> TRUE, scale |-> scale,
         cardWidth |-> RatMul(cardWidthCss, scale),
         cardHeight |-> RatMul(cardHeightCss, scale)]

\* updateSize() of the refactored variant's WebGPURenderer.setupCanvas()
variantSetupCanvas(win, dpi) ==
    LET cardWidthPx == RatMul(Rat(cardWidthMM, 1), mmToPixel(dpi))
        cardHeightPx == RatMul(Rat(cardHeightMM, 1), mmToPixel(dpi))
        maxWidth == RatMul(Rat(win.innerWidth, 1), viewportCardLimit)
        maxHeight == RatMul(Rat(win.innerHeight, 1), viewportCardLimit)
        scale == IF RatLT(maxWidth, cardWidthPx) \/ RatLT(maxHeight, cardHeightPx)
                 THEN RatMin(RatDiv(maxWidth, cardWidthPx), RatDiv(maxHeight, cardHeightPx))
                 ELSE Rat(1, 1)
    IN  [set |-> TRUE, scale |-> scale,
         cardWidth |-> RatMul(cardWidthPx, scale),
         cardHeight |-> RatMul(cardHeightPx, scale)]

\* The viewports and pixel ratios the canvas is set up in: phones, a card's
\* own size (239 x 333 holds it, 238 x 332 does not), desktops
CanvasWidths == {1, 200, 238, 239, 320, 390, 399, 400, 800, 1920}
CanvasHeights == {1, 200, 332, 333, 600, 844, 1080}
CanvasViewports == {[innerWidth |-> w, innerHeight |-> h] : w \in CanvasWidths, h \in CanvasHeights}
DevicePixelRatios == {100, 150, 200, 300}

InitCanvas ==
    /\ window \in CanvasViewports
    /\ cardsJson = <<>>
    /\ app = NewCardStudyApp
    /\ stateManager = NewStateManager(0)
    /\ documentCookie = <<>>
    /\ drawn = <<>>
    /\ cardStack = NewCardStack
    /\ variantDrawn = <<>>
    /\ op = "new"
    /\ ret = TRUE
    /\ calls = -1
    /\ loadedFrom = <<>>
    /\ snap = NoSnap
    /\ devicePixelRatio \in DevicePixelRatios
    /\ canvas = NoCanvas
    /\ shuffled = NoShuffle
    /\ variant = NewVariantApp

canvasRest == <<cardsJson, app, stateManager, documentCookie, drawn, cardStack, variantDrawn,
                op, ret, calls, loadedFrom, snap, devicePixelRatio, shuffled, variant>>

\* setupCanvas() of app.js: the first updateSize()
SetupCanvas ==
    /\ ~canvas.app.set
    /\ canvas' = [canvas EXCEPT !.app = setupCanvas(window)]
    /\ UNCHANGED <<window, canvasRest>>

\* setupCanvas() of the refactored variant: the first updateSize()
VariantSetupCanvas ==
    /\ ~canvas.variant.set
    /\ canvas' = [canvas EXCEPT !.variant = variantSetupCanvas(window, devicePixelRatio)]
    /\ UNCHANGED <<window, canvasRest>>

\* A resize event: the updateSize listener of every page that has set up
\* its canvas runs in the new viewport
ResizeCanvas ==
    /\ canvas.app.set \/ canvas.variant.set
    /\ \E win \in CanvasViewports :
          /\ win # window
          /\ window' = win
          /\ canvas' = [app |-> IF canvas.app.set THEN setupCanvas(win) ELSE canvas.app,
                        variant |-> IF canvas.variant.set
                                    THEN variantSetupCanvas(win, devicePixelRatio)
                                    ELSE canvas.variant]
    /\ UNCHANGED canvasRest

NextCanvas == SetupCanvas \/ VariantSetupCanvas \/ ResizeCanvas

SpecCanvas == InitCanvas /\ [][NextCanvas]_vars

----------------------------------------------------------------------------
(* Properties of the card's size *)

\* The card's natural size in app.js (CSS pixels) and in the variant
NaturalWidth == RatMul(Rat(cardWidthMM, 1), mmToCssPixel)
NaturalHeight == RatMul(Rat(cardHeightMM, 1), mmToCssPixel)
VariantNaturalWidth == RatMul(Rat(cardWidthMM, 1), mmToPixel(devicePixelRatio))
VariantNaturalHeight == RatMul(Rat(cardHeightMM, 1), mmToPixel(devicePixelRatio))

\* The stored size is the natural size times the stored scale
ScaledFromNatural ==
    /\ canvas.app.set => /\ canvas.app.cardWidth = RatMul(NaturalWidth, canvas.app.scale)
                         /\ canvas.app.cardHeight = RatMul(NaturalHeight, canvas.app.scale)
    /\ canvas.variant.set
          => /\ canvas.variant.cardWidth = RatMul(VariantNaturalWidth, canvas.variant.scale)
             /\ canvas.variant.cardHeight = RatMul(VariantNaturalHeight, canvas.variant.scale)

\* The card of app.js is not larger than its natural size
NotScaledUp ==
    /\ RatLE(canvas.app.scale, Rat(1, 1))
    /\ RatLE(canvas.app.cardWidth, NaturalWidth)
    /\ RatLE(canvas.app.cardHeight, NaturalHeight)

\* The same for the variant
VariantNotScaledUp ==
    /\ RatLE(canvas.variant.scale, Rat(1, 1))
    /\ RatLE(canvas.variant.cardWidth, VariantNaturalWidth)
    /\ RatLE(canvas.variant.cardHeight, VariantNaturalHeight)

\* The card lies within the viewport less the margins (app.js) and within
\* the viewportCardLimit share of the viewport (variant)
FitsViewport ==
    /\ canvas.app.set
          => /\ RatLE(canvas.app.cardWidth, Rat(window.innerWidth - 2 * minCardMargin, 1))
             /\ RatLE(canvas.app.cardHeight, Rat(window.innerHeight - 2 * minCardMargin, 1))
    /\ canvas.variant.set
          => /\ RatLE(canvas.variant.cardWidth,
                      RatMul(Rat(window.innerWidth, 1), viewportCardLimit))
             /\ RatLE(canvas.variant.cardHeight,
                      RatMul(Rat(window.innerHeight, 1), viewportCardLimit))

ScaledUpOnPhone ==
    /\ canvas.app.set
    /\ window = [innerWidth |-> 390, innerHeight |-> 844]
    /\ canvas.app.cardWidth = Rat(390, 1)
    /\ RatLT(Rat(1, 1), canvas.app.scale)

----------------------------------------------------------------------------
(* Utils.fisherYatesShuffle by itself *)

InitShuffle ==
    /\ \E n \in 0..MaxShuffle :
          shuffled = [n |-> n, choice |-> <<>>, array |-> ArrayFromLength(n)]
    /\ window = BaseWindow
    /\ cardsJson = <<>>
    /\ app = NewCardStudyApp
    /\ stateManager = NewStateManager(0)
    /\ documentCookie = <<>>
    /\ drawn = <<>>
    /\ cardStack = NewCardStack
    /\ variantDrawn = <<>>
    /\ op = "new"
    /\ ret = TRUE
    /\ calls = -1
    /\ loadedFrom = <<>>
    /\ snap = NoSnap
    /\ devicePixelRatio = 100
    /\ canvas = NoCanvas
    /\ variant = NewVariantApp

\* Utils.fisherYatesShuffle(Array.from({ length: n }, (_, i) => i)), as
\* reset() calls it, with the values its Math.random() calls give
Shuffle ==
    /\ \E choice \in RandomChoices(shuffled.n) :
          shuffled' = [n |-> shuffled.n, choice |-> choice,
                       array |-> fisherYatesShuffle(ArrayFromLength(shuffled.n), choice)]
    /\ UNCHANGED <<cardsJson, app, stateManager, documentCookie, window, drawn, cardStack,
                   variantDrawn, op, ret, calls, loadedFrom, snap, devicePixelRatio, canvas,
                   variant>>

NextShuffle == Shuffle

SpecShuffle == InitShuffle /\ [][NextShuffle]_vars

----------------------------------------------------------------------------
(* The refactored variant: AnimationController, the frame loop of animate() *)
(* and the loads of onCardThrowComplete.  render() issues draw commands and *)
(* writes no field: the frames are not recorded here.                       *)

\* AnimationController.startThrow(): the throw's direction and rotation are
\* read by render() alone
startThrow(ac) == [ac EXCEPT !.isAnimating = TRUE, !.animationType = "throw", !.progress = 0]

\* AnimationController.startSettle(fromRotation, fromOffset)
startSettle(ac) == [ac EXCEPT !.isAnimating = TRUE, !.animationType = "settle", !.progress = 0]

\* AnimationController.complete()
complete(ac) == [ac EXCEPT !.isAnimating = FALSE, !.progress = 1000, !.startTime = 0]

\* AnimationController.update(currentTime): [ac, ret].  progress is
\* Math.min(elapsed / duration, 1) in thousandths.
update(ac, currentTime) ==
    IF ~ac.isAnimating THEN [ac |-> ac, ret |-> FALSE]
    ELSE LET started == IF ac.startTime = 0 THEN [ac EXCEPT !.startTime = currentTime] ELSE ac
             elapsed == currentTime - started.startTime
             duration == IF ac.animationType = "throw" THEN variantThrowDuration
                         ELSE variantSettleDuration
             progress == Min((elapsed * 1000) \div duration, 1000)
         IN  IF progress >= 1000
             THEN [ac |-> complete([started EXCEPT !.progress = progress]), ret |-> TRUE]
             ELSE [ac |-> [started EXCEPT !.progress = progress], ret |-> FALSE]

\* The variant's application with the tracker, the cookie store and the
\* CardStack its methods act on
VariantWorld(v, sm, jar, stack) == [v |-> v, sm |-> sm, jar |-> jar, stack |-> stack]

\* CardStack.shift()
shift(stack) ==
    [textures |-> Shift(stack.textures), rotations |-> Shift(stack.rotations),
     offsets |-> Shift(stack.offsets), oldDarkenFactors |-> Shift(stack.oldDarkenFactors)]

\* CardStack.saveOldDarkenFactors(remainingCards)
saveOldDarkenFactors(stack, remainingCards) ==
    LET stackSize == Min(maxStackCards, remainingCards - 1)
    IN  [stack EXCEPT !.oldDarkenFactors =
            [k \in 1..Len(stack.textures) |->
                100 - (stackSize - (k - 1)) * variantStackDarkenPerLayer]]

\* this.animate() called with no argument: currentTime = 0.  The elapsed
\* time of such a call is 0 - startTime, never above 0, so that update()
\* does not report the animation complete and the callback is scheduled.
animateCall(w) ==
    LET u == update(w.v.animationController, 0)
    IN  [w EXCEPT !.v.animationController = u.ac,
                  !.v.raf = IF u.ret THEN @ ELSE @ + 1]

\* The end of onCardThrowComplete: start the settle, or just render
variantSettleOrRender(w, pose) ==
    IF pose.rotation # 0 \/ pose.offset.x # 0 \/ pose.offset.y # 0
    THEN animateCall([w EXCEPT !.v.animationController = startSettle(@)])
    ELSE w

\* An awaited call that waits for fetches: at is "current" (loadCurrentCards
\* awaiting its current card), "stack" (loadCurrentCards awaiting
\* Promise.all) or "next" (loadNextStackCard); waiting holds the paths
\* whose fetch has not completed; pose is the nextCard pose of the
\* onCardThrowComplete that awaits the call
VariantLoad(at, paths, waiting, pose) ==
    [at |-> at, paths |-> paths, waiting |-> waiting, pose |-> pose]

NoPose == [rotation |-> 0, offset |-> ZeroOffset]

\* loadCurrentCards() from `const textures = await Promise.all(loadPromises)`
\* on, and the rest of the onCardThrowComplete that awaited it
variantLoadCurrentCardsEnd(w, paths, pose, draws) ==
    variantSettleOrRender(
        [w EXCEPT !.stack = addEach(@, [k \in 1..Len(paths) |-> Texture(paths[k], 1)], draws)],
        pose)

\* loadCurrentCards() from the current card's texture on
variantLoadCurrentCardsStack(w, path, pose, draws) ==
    LET cardsToPreload == Min(preloadCount, getRemainingCards(w.sm))
        wanted == [i \in 1..cardsToPreload |-> getStackCardPath(w.sm, cardsJson, i)]
        paths == SelectSeq(wanted, LAMBDA q : q # NoPath)
        fetched == {paths[k] : k \in 1..Len(paths)} \ w.v.cache
        cleared == [w EXCEPT !.v.currentTexture = Texture(path, 1), !.stack = NewCardStack]
    IN  IF fetched = {}
        THEN variantLoadCurrentCardsEnd(cleared, paths, pose, draws)
        ELSE [cleared EXCEPT !.v.loads = Append(@, VariantLoad("stack", paths, fetched, pose))]

\* await this.loadCurrentCards() of onCardThrowComplete: a cached texture
\* is there before any other task runs
variantLoadCurrentCards(w, pose, draws) ==
    LET currentCardPath == getCurrentCardPath(w.sm, cardsJson)
    IN  IF currentCardPath \in w.v.cache
        THEN variantLoadCurrentCardsStack(w, currentCardPath, pose, draws)
        ELSE [w EXCEPT !.v.loads =
                 Append(@, VariantLoad("current", <<currentCardPath>>, {currentCardPath}, pose))]

\* this.loadNextStackCard(), not awaited
variantLoadNextStackCard(w, draws) ==
    LET cardPath == getStackCardPath(w.sm, cardsJson, Len(w.stack.textures) + 1)
    IN  IF cardPath = NoPath THEN w
        ELSE IF cardPath \in w.v.cache
             THEN [w EXCEPT !.stack = add(@, Texture(cardPath, 1), draws)]
             ELSE [w EXCEPT !.v.loads =
                      Append(@, VariantLoad("next", <<cardPath>>, {cardPath}, NoPose))]

\* onCardThrowComplete() of the variant, up to its first await that waits
variantOnCardThrowComplete(w, choice, draws) ==
    LET pose == IF Len(w.stack.textures) > 0
                THEN [rotation |-> w.stack.rotations[1], offset |-> w.stack.offsets[1]]
                ELSE NoPose
        saved == saveOldDarkenFactors(w.stack, getRemainingCards(w.sm))
        moved == advance(w.sm, w.jar)
    IN  IF ~moved.ret
        THEN variantLoadCurrentCards(
                 [w EXCEPT !.sm = reset(moved.sm, moved.jar, choice).sm,
                           !.jar = reset(moved.sm, moved.jar, choice).jar,
                           !.stack = saved],
                 pose, draws)
        ELSE IF Len(saved.textures) > 0
             THEN variantSettleOrRender(
                      variantLoadNextStackCard(
                          [w EXCEPT !.sm = moved.sm, !.jar = moved.jar,
                                    !.stack = shift(saved),
                                    !.v.currentTexture = saved.textures[1]],
                          draws),
                      pose)
             ELSE variantLoadCurrentCards(
                      [w EXCEPT !.sm = moved.sm, !.jar = moved.jar, !.stack = saved],
                      pose, draws)

\* animate(currentTime) as a callback of requestAnimationFrame
animate(w, currentTime, choice, draws) ==
    LET u == update(w.v.animationController, currentTime)
        updated == [w EXCEPT !.v.animationController = u.ac]
    IN  IF ~u.ret
        THEN [updated EXCEPT !.v.raf = @ + 1]
        ELSE IF u.ac.animationType = "throw"
             THEN variantOnCardThrowComplete(updated, choice, draws)
             ELSE updated

\* The callbacks of one frame, run one after the other
RECURSIVE animateEach(_, _, _, _, _)
animateEach(w, n, currentTime, choice, draws) ==
    IF n = 0 THEN w
    ELSE animateEach(animate(w, currentTime, choice, draws), n - 1, currentTime, choice, draws)

\* throwCard()
variantThrowCard(w) ==
    animateCall([w EXCEPT !.v.animationController = startThrow(@), !.v.clicks = @ + 1])

\* handleInteraction(e) of the variant's setupEventListeners
variantHandleInteraction(w) ==
    IF ~w.v.animationController.isAnimating THEN variantThrowCard(w) ELSE w

\* The page of the variant, opened on a saved position of a deck in its
\* listed order: init() has run to its end, the current card and the stack
\* behind it are loaded, the cards before the position never were
InitVariant ==
    /\ window = BaseWindow
    /\ cardsJson = SubSeq(AllCardPaths, 1, VariantDeck)
    /\ stateManager = [NewStateManager(VariantDeck) EXCEPT
                           !.shuffledIndices = ArrayFromLength(VariantDeck),
                           !.currentCardIndex = VariantStart]
    /\ documentCookie = save(stateManager, <<>>)
    /\ \E draws \in PoseDraws :
          LET paths == [i \in 1..Min(preloadCount, VariantDeck - VariantStart - 1) |->
                           getStackCardPath(stateManager, cardsJson, i)]
          IN  /\ cardStack = addEach(NewCardStack,
                                     [k \in 1..Len(paths) |-> Texture(paths[k], 1)], draws)
              /\ variant = [NewVariantApp EXCEPT
                                !.currentTexture =
                                    Texture(getCurrentCardPath(stateManager, cardsJson), 1),
                                !.cache = {getCurrentCardPath(stateManager, cardsJson)}
                                          \cup {paths[k] : k \in 1..Len(paths)}]
    /\ app = NewCardStudyApp
    /\ drawn = <<>>
    /\ variantDrawn = <<>>
    /\ op = "new"
    /\ ret = TRUE
    /\ calls = -1
    /\ loadedFrom = <<>>
    /\ snap = NoSnap
    /\ devicePixelRatio = 100
    /\ canvas = NoCanvas
    /\ shuffled = NoShuffle

variantRest == <<cardsJson, app, window, drawn, variantDrawn, op, ret, calls, loadedFrom, snap,
                 devicePixelRatio, canvas, shuffled>>

VariantBecomes(w) ==
    /\ variant' = w.v
    /\ stateManager' = w.sm
    /\ documentCookie' = w.jar
    /\ cardStack' = w.stack

\* A click or touchstart on the variant's canvas, while the user has throws left
VariantClick ==
    /\ variant.clicks < VariantThrows
    /\ VariantBecomes(variantHandleInteraction(
           VariantWorld(variant, stateManager, documentCookie, cardStack)))
    /\ UNCHANGED variantRest

\* The next frame of the display: every callback given to
\* requestAnimationFrame runs with the frame's timestamp.  The timestamp
\* advances by VariantFrameStep while an animation reads it.
VariantFrame ==
    /\ variant.raf > 0
    /\ LET time == IF variant.animationController.isAnimating
                   THEN variant.now + VariantFrameStep
                   ELSE variant.now
       IN  \E choice \in ShuffleDraws(VariantDeck), draws \in PoseDraws :
              VariantBecomes(animateEach(
                  VariantWorld([variant EXCEPT !.raf = 0, !.now = time],
                               stateManager, documentCookie, cardStack),
                  variant.raf, time, choice, draws))
    /\ UNCHANGED variantRest

\* A fetch of textureManager.load() completes: the texture is cached, and
\* the call that awaited the last of its fetches goes on
VariantTextureLoaded ==
    \E k \in 1..Len(variant.loads) : \E path \in variant.loads[k].waiting :
       \E draws \in PoseDraws :
          LET ld == variant.loads[k]
              cached == [variant EXCEPT !.cache = @ \cup {path}]
              gone == VariantWorld([cached EXCEPT !.loads = RemoveAt(@, k)],
                                   stateManager, documentCookie, cardStack)
          IN  /\ IF ld.waiting # {path}
                 THEN VariantBecomes(VariantWorld(
                          [cached EXCEPT !.loads[k].waiting = @ \ {path}],
                          stateManager, documentCookie, cardStack))
                 ELSE IF ld.at = "current"
                      THEN VariantBecomes(
                               variantLoadCurrentCardsStack(gone, path, ld.pose, draws))
                      ELSE IF ld.at = "stack"
                           THEN VariantBecomes(
                                    variantLoadCurrentCardsEnd(gone, ld.paths, ld.pose, draws))
                           ELSE VariantBecomes(
                                    [gone EXCEPT !.stack = add(@, Texture(path, 1), draws)])
              /\ UNCHANGED variantRest

NextVariant == VariantClick \/ VariantFrame \/ VariantTextureLoaded

SpecVariant == InitVariant /\ [][NextVariant]_vars

----------------------------------------------------------------------------
(* Properties of the shuffle *)

RECURSIVE Factorial(_)
Factorial(n) == IF n <= 1 THEN 1 ELSE n * Factorial(n - 1)

\* The arrays that hold each of 0..n-1 once
PermutationsOf(n) == {a \in [1..n -> 0..(n - 1)] : IsPermutation(a, n)}

\* What the shuffle returns for the identity array of length n, over all
\* the choices it can make
ShuffleResults(n) == {fisherYatesShuffle(ArrayFromLength(n), c) : c \in RandomChoices(n)}

\* C32: for every N up to MaxShuffle, as the choices j range over [0,i] for
\* i = N-1 down to 1, fisherYatesShuffle applied to the identity array
\* produces every permutation of [0,N), each from exactly one sequence of
\* choices: N! choice sequences, N! distinct results.
C32_ShuffleIsBijection ==
    LET n == shuffled.n
    IN  /\ IsPermutation(shuffled.array, n)
        /\ \A c, e \in RandomChoices(n) :
              fisherYatesShuffle(ArrayFromLength(n), c) = fisherYatesShuffle(ArrayFromLength(n), e)
                  => c = e
        /\ ShuffleResults(n) = PermutationsOf(n)
        /\ Cardinality(RandomChoices(n)) = Factorial(n)
        /\ Cardinality(ShuffleResults(n)) = Factorial(n)

\* A shuffle of MaxShuffle elements has returned the reversed array
C32_Witness ==
    /\ shuffled.n = MaxShuffle
    /\ shuffled.choice # <<>>
    /\ shuffled.array = [k \in 1..MaxShuffle |-> MaxShuffle - k]

----------------------------------------------------------------------------
(* Properties of the loads of stack cards *)

\* C39: at most one loadNextStackCard operation is in flight at any time: a
\* second one is never started while isLoadingStackCard is true, so two
\* load completions never append to the stack arrays for the same shift
\* window.
C39_OneStackLoadInFlight ==
    /\ Len(StackCardLoads(app)) <= 1
    /\ (StackCardLoads(app) # <<>> => app.isLoadingStackCard)

\* No load of a stack card is started while the flag is set
NoStartWhileFlagged ==
    [][app.isLoadingStackCard => Len(StackCardLoads(app')) <= Len(StackCardLoads(app))]_vars

\* The flag is set for as long as a load of a stack card is in flight
FlaggedWhileLoading == StackCardLoads(app) # <<>> => app.isLoadingStackCard

\* Two loads of stack cards are in flight for the same image
TwoLoadsOfOneStackCard ==
    /\ Len(StackCardLoads(app)) = 2
    /\ StackCardLoads(app)[1].path = StackCardLoads(app)[2].path

\* Stack entry i holds the image of the card i + 1 places after the cursor
AlignedAt(i) ==
    /\ DeckPosition(i) < Len(stateManager.shuffledIndices)
    /\ At(app.nextTextures, i).image
         = At(cardsJson, At(stateManager.shuffledIndices, DeckPosition(i)))

\* C34: whenever no image load is in flight, stack entry i holds the image
\* of cards[permutation[cursor+1+i]] for every index i of the stack, so no
\* card appears twice in the stack and no upcoming card is skipped, for
\* every interleaving of throws and load completions.
C34_StackAligned ==
    (app.listening /\ app.loading = <<>>)
        => \A i \in 0..(Len(app.nextTextures) - 1) : AlignedAt(i)

\* A stack that holds a card twice
CardTwiceInStack ==
    /\ app.loading = <<>>
    /\ \E i, j \in 1..Len(app.nextTextures) :
          i < j /\ app.nextTextures[i].image = app.nextTextures[j].image

\* C35: in every reachable state the stack holds at most
\* min(maxStackCards, remaining - 1) entries, where remaining = N - cursor,
\* for every interleaving of throws, reshuffles and load completions.
C35_StackBounded ==
    app.listening
        => Len(app.nextTextures) <= Min(maxStackCards, getRemainingCards(stateManager) - 1)

\* The stack never holds more than maxStackCards entries
StackWithinMax == Len(app.nextTextures) <= maxStackCards

----------------------------------------------------------------------------
(* Properties of the snapshots the application writes *)

\* The store holds the tracker's permutation, which is one of the deck, and
\* the tracker's cursor, which is on a card
SnapshotOnCard ==
    /\ PersistedIsMemory
    /\ IsPermutation(stateManager.shuffledIndices, Len(cardsJson))
    /\ stateManager.currentCardIndex \in 0..(Len(cardsJson) - 1)

\* The cursor the store holds, -1 when it holds none
PersistedCursor ==
    IF getCookie(documentCookie, cookieName).isNull THEN -1
    ELSE Persisted(documentCookie).current.n

\* C37: every snapshot ever written to the store has a permutation of
\* length N and a cursor in [0, N-1] equal to the in-memory cursor at the
\* time of the write; the cursor value N is never persisted, so a reload
\* at any moment resumes on an existing card.
C37_SnapshotsOnCard ==
    /\ totalCards > 0 => SnapshotOnCard
    /\ PersistedCursor < Len(cardsJson) \/ Len(cardsJson) = 0

\* The snapshot written by the reshuffle at the end of a deck of MaxN
\* cards, while the load of its first card is awaited
C37_Witness ==
    /\ Len(cardsJson) = MaxN
    /\ SnapshotOnCard
    /\ stateManager.currentCardIndex = 0
    /\ AwaitingThrows(app.loading) # <<>>

----------------------------------------------------------------------------
(* Properties of the brightness of the draws *)

\* Every draw of the frames has a brightness multiplier in [0,1]
BrightnessInRange(frames) ==
    \A f \in 1..Len(frames) : \A k \in 1..Len(frames[f]) :
        0 <= frames[f][k].darkenFactor /\ frames[f][k].darkenFactor <= 100

\* C36: every draw command's brightness multiplier lies in [0,1], for
\* every stack layer 1..maxStackCards under the shipped configuration
\* (perLayerDarken 0.25 in app.js, 0.15 in the refactored variant) and for
\* every animation progress in [0,1].
C36_BrightnessInRange == BrightnessInRange(drawn) /\ BrightnessInRange(variantDrawn)

\* The same for the variant's draws alone
VariantBrightnessInRange == BrightnessInRange(variantDrawn)

\* The same for the draws of app.js other than those of the fifth layer
BrightnessInRangeToFourth ==
    \A f \in 1..Len(drawn) : \A k \in 1..Len(drawn[f]) :
        drawn[f][k].index < maxStackCards - 1
            => 0 <= drawn[f][k].darkenFactor /\ drawn[f][k].darkenFactor <= 100

\* A frame of the variant that draws its fifth layer
VariantDrawsFifthLayer ==
    \E f \in 1..Len(variantDrawn) : \E k \in 1..Len(variantDrawn[f]) :
        variantDrawn[f][k].darkenFactor = 100 - maxStackCards * variantStackDarkenPerLayer

----------------------------------------------------------------------------
(* Properties of the refactored variant's frame loop *)

\* C38: in the refactored variant no frame callback remains scheduled
\* while the controller is not animating: animate() never keeps
\* re-scheduling itself while AnimationController.isAnimating is false,
\* for every interleaving of clicks, load completions and animation starts.
C38_FrameLoopStops == ~variant.animationController.isAnimating => variant.raf = 0

\* One callback at most is scheduled at any time
OneFrameCallback == variant.raf <= 1

\* A callback is scheduled while the controller is idle and nothing is
\* being loaded, after the last throw the user makes
IdleLoopRuns ==
    /\ ~variant.animationController.isAnimating
    /\ variant.loads = <<>>
    /\ variant.raf > 0
    /\ variant.clicks = VariantThrows

\* C33: the progress computed on each frame of a throw or settle lies in
\* [0,1] for every frame timestamp, is non-decreasing from frame to frame
\* of a phase, and the phase completes exactly on the first frame on which
\* it equals 1.
C33_ProgressClamped ==
    /\ 0 <= variant.animationController.progress
    /\ variant.animationController.progress <= 1000
    /\ (variant.animationController.isAnimating
           => variant.animationController.progress < 1000)

\* From frame to frame of one phase the progress does not decrease
ProgressNonDecreasing ==
    [][(/\ variant.animationController.isAnimating
        /\ variant'.animationController.isAnimating
        /\ variant'.animationController.animationType
               = variant.animationController.animationType
        /\ variant'.clicks = variant.clicks)
          => variant'.animationController.progress >= variant.animationController.progress]_vars

\* The progress of a settle is below 0
NegativeProgress ==
    /\ variant.animationController.isAnimating
    /\ variant.animationController.animationType = "settle"
    /\ variant.animationController.progress < 0

\* The variant's controller is running a throw
VariantThrowing ==
    variant.animationController.isAnimating
    /\ variant.animationController.animationType = "throw"

\* C12: no animation is cancelled: a throw that has started stops being
\* the controller's animation only by reaching progress 1, in the step that
\* triggers its one throw-completion (one deck advance or reshuffle).
C12_ThrowRunsToCompletion ==
    [][(VariantThrowing /\ ~VariantThrowing')
          => \/ stateManager'.currentCardIndex = stateManager.currentCardIndex + 1
             \/ (stateManager'.currentCardIndex = 0
                 /\ getRemainingCards(stateManager) = 1)]_vars

\* A throw has run to its completion and the settle after it too
VariantThrowSettled ==
    /\ ~variant.animationController.isAnimating
    /\ variant.animationController.animationType = "settle"
    /\ variant.animationController.progress = 1000
    /\ variant.raf = 0
    /\ variant.clicks > 0

\* The progress values of app.js, in milliseconds of their durations
AppProgressClamped ==
    /\ 0 <= app.animationProgress /\ app.animationProgress <= throwDuration
    /\ 0 <= app.settleProgress /\ app.settleProgress <= settleDuration

=============================================================================
